---- MODULE Spec2Model ----
(***************************************************************************)
(* Round-completion pipeline of the golf tracker (src/services/            *)
(* roundservice.js): the checkpoint store, the resume planner, the seven   *)
(* pipeline steps and the orchestrator completeRoundSequential, run        *)
(* against a local key-value store (AsyncStorage) and a remote store       *)
(* (supabase) whose operations may fail.                                   *)
(***************************************************************************)
EXTENDS Integers, Sequences, FiniteSets, TLC

(* ------------------------------------------------------------------ *)
(* Bounds of the model                                                  *)
(* ------------------------------------------------------------------ *)
\* holes of a round that the model tracks (the code loops over 1..18)
MaxHole == 2
\* longest shots sequence of a hole
MaxShots == 1
\* events of the environment in a behaviour: failures of an operation of the
\* local or the remote store, process deaths, saves of a hole by the screen
\* between runs, steps of the clock, and calls of complete for a round whose
\* completion has already succeeded
MaxEvents == 2
\* taps of the user on the tracker screen in a behaviour: shots recorded and
\* presses of the navigation and completion buttons
MaxTaps == 3

(* ------------------------------------------------------------------ *)
(* Program constants                                                    *)
(* ------------------------------------------------------------------ *)
CHECKPOINT_EXPIRY_HOURS == 24
\* courseData.par || 72
coursePar == 72

stepOrder ==
  << "saveCurrentHole", "retrieveAllHoles", "validateData", "saveToDatabase",
     "markComplete", "generateInsights", "cleanup" >>

StepNames == { stepOrder[k] : k \in 1..Len(stepOrder) }

\* stepOrder.indexOf(name), 1-based; 0 stands for -1
IndexOf(name) ==
  IF name \in StepNames
    THEN CHOOSE k \in 1..Len(stepOrder) : stepOrder[k] = name
    ELSE 0

HoleNums == 1..MaxHole
ShotTypes == { "Tee Shot" }
ShotSeqs == UNION { [1..n -> ShotTypes] : n \in 0..MaxShots }
\* a hole collection: hole number -> shots of that hole's record
HoleCollections == UNION { [D -> ShotSeqs] : D \in SUBSET HoleNums }

NoHoles == [h \in {} |-> <<>>]

(* ------------------------------------------------------------------ *)
(* Step-progress maps: a JS object, kept as its entries in insertion    *)
(* order (Object.entries order)                                         *)
(* ------------------------------------------------------------------ *)
HasEntry(sp, name) == \E k \in 1..Len(sp) : sp[k].step = name

StatusOf(sp, name) ==
  IF HasEntry(sp, name)
    THEN sp[CHOOSE k \in 1..Len(sp) : sp[k].step = name].status
    ELSE "none"

\* currentStepProgress[name] = { status }
SetStatus(sp, name, st) ==
  IF HasEntry(sp, name)
    THEN [k \in 1..Len(sp) |->
            IF sp[k].step = name THEN [step |-> name, status |-> st] ELSE sp[k]]
    ELSE Append(sp, [step |-> name, status |-> st])

(* ------------------------------------------------------------------ *)
(* AsyncStorage: each key holds <<>> (absent) or <<value>>              *)
(* ------------------------------------------------------------------ *)
SetItem(s, key, v) == [s EXCEPT ![key] = <<v>>]
RemoveItem(s, key) == [s EXCEPT ![key] = <<>>]
GetItem(s, key) == s[key]

EmptyStorage == [checkpoint |-> <<>>, holes |-> <<>>, currentRound |-> <<>>]

(* ------------------------------------------------------------------ *)
(* State                                                                *)
(* ------------------------------------------------------------------ *)
VARIABLES
  storage,              \* AsyncStorage: checkpoint, holes and currentRound keys
  rows,                 \* remote "shots" table of the round: hole -> row
  round,                \* remote "rounds" record of the round
  markCompleteUpdates,  \* updates of the round record issued by completeRound:
                        \* "none", "once" or "repeated"
  insightsTriggers,     \* analysis requests issued by generateInsights, likewise
  insightsRequest,      \* the analysis request issued by the run in progress:
                        \* "none", "pending", or how it settled: "ok", "error"
                        \* (error result), "rejected"
  now,                  \* the clock, in hours
  lastHoles,            \* the hole collection last written under the holes key
  pc,                   \* position of completeRoundSequential
  i,                    \* loop index of the pipeline
  startIndex,
  holeNum,              \* loop index of saveHolesToDatabase
  resumeInfo,
  loaded,               \* what loadCompletionCheckpoint returned to the planner
  currentStepProgress,
  results,              \* the accumulator of step results of this run
  running,              \* step functions invoked and not yet settled
  inflight,             \* checkpoint saves issued and not yet settled
  thrown,               \* the error caught from the step, while it is handled
  outcome,              \* how the latest call of complete ended
  previous,             \* the step at which the call before it failed, or
                        \* "success" when that call succeeded
  lastSaveOk,           \* the latest checkpoint save of the run reached the store
  eventsLeft,           \* events of the environment still allowed
  roundDeleted,         \* the remote "rounds" record of the round has been deleted
  posthogInstance,      \* the telemetry sink is set (not null)
  captured,             \* the events the latest capturing step handed to the sink
  tracker,              \* the tracker screen: its React state, the dialog shown and
                        \* the positions of finishRound and of the Exit handler
  rounds,               \* the keyed local store and the runs of two rounds
  boundary,             \* a call of a function wrapped by withInsightsErrorBoundary
  play                  \* the hole being played: currentHole, holeData, the saves
                        \* of hole records in flight and the user's taps so far

vars ==
  << storage, rows, round, markCompleteUpdates, insightsTriggers, insightsRequest,
     now, lastHoles,
     pc, i, startIndex, holeNum, resumeInfo, loaded, currentStepProgress,
     results, running, inflight, thrown, outcome, previous, lastSaveOk,
     eventsLeft, roundDeleted, posthogInstance, captured, tracker, rounds,
     boundary, play >>

remoteVars == << rows, round, markCompleteUpdates, insightsTriggers >>

\* the state of the pipeline, of its stores and of its environment
completionVars ==
  << storage, rows, round, markCompleteUpdates, insightsTriggers, insightsRequest,
     now, lastHoles,
     pc, i, startIndex, holeNum, resumeInfo, loaded, currentStepProgress,
     results, running, inflight, thrown, outcome, previous, lastSaveOk,
     eventsLeft >>

\* what a step of the pipeline leaves alone besides the sink's events
besideVars == << roundDeleted, posthogInstance, tracker, rounds, boundary, play >>

\* what a step of the pipeline that captures no event leaves alone
otherVars == << besideVars, captured >>

NoResults == [done |-> {}, data |-> <<>>, validHoles |-> <<>>]
NoResume ==
  [startFromBeginning |-> TRUE, resumeFromStep |-> "none",
   preserveError |-> "null", checkpoint |-> <<>>]
\* persisted: whether the last storage operation of the call, the save of the
\* Failed checkpoint or the final clear, reached the store
NoOutcome == [kind |-> "none", step |-> "none", error |-> "none", canRetry |-> FALSE,
              persisted |-> FALSE]

\* whether an operation of a store fails: only while faults are left
Fails == IF eventsLeft > 0 THEN {FALSE, TRUE} ELSE {FALSE}
Spend(f) == IF f THEN eventsLeft - 1 ELSE eventsLeft
Bump(n) == IF n = "none" THEN "once" ELSE "repeated"

(* ------------------------------------------------------------------ *)
(* Checkpoint store                                                     *)
(* ------------------------------------------------------------------ *)
\* a checkpoint whose expiry is counted from the start of the round
NewCheckpointFixedExpiry(stepProgress, lastFailure, t) ==
  [stepProgress |-> stepProgress, lastFailure |-> lastFailure,
   expiresAt |-> CHECKPOINT_EXPIRY_HOURS]

\* the checkpoint object built by saveCompletionCheckpoint at time t
NewCheckpoint(stepProgress, lastFailure, t) ==
  [stepProgress |-> stepProgress, lastFailure |-> lastFailure,
   expiresAt |-> t + CHECKPOINT_EXPIRY_HOURS]

\* a checkpoint that is expired already at its expiresAt
ExpiredAtDeadline(checkpoint, t) == checkpoint.expiresAt <= t

\* new Date(checkpoint.expiresAt) < new Date()
Expired(checkpoint, t) == checkpoint.expiresAt < t

\* loadCompletionCheckpoint: what it returns and what it leaves in the store;
\* fault names the storage operation that throws, if any
LoadCompletionCheckpoint(s, t, fault) ==
  LET checkpointData == GetItem(s, "checkpoint") IN
  IF fault = "getItem" THEN [checkpoint |-> <<>>, storage |-> s]
  ELSE IF checkpointData = <<>> THEN [checkpoint |-> <<>>, storage |-> s]
  ELSE IF Expired(checkpointData[1], t)
    THEN [checkpoint |-> <<>>,
          storage |-> IF fault = "removeItem" THEN s ELSE RemoveItem(s, "checkpoint")]
  ELSE [checkpoint |-> checkpointData, storage |-> s]

\* a call of complete after a call that succeeded: an event of the environment
Recall == IF outcome.kind = "success" THEN 1 ELSE 0

\* the storage operations of a load that can throw in store s at time t
LoadFaults(s, t) ==
  {"none"} \cup
  (IF eventsLeft > Recall /\ GetItem(s, "checkpoint") # <<>>
     THEN {"getItem"} \cup
          (IF Expired(GetItem(s, "checkpoint")[1], t) THEN {"removeItem"} ELSE {})
     ELSE {})

(* ------------------------------------------------------------------ *)
(* Resume planner                                                       *)
(* ------------------------------------------------------------------ *)
\* a planner that ignores the checkpoint
DetectFromBeginning(checkpoint) == NoResume

\* a planner that does not look for a Failed step
DetectIgnoringFailed(checkpoint) ==
  IF checkpoint = <<>> THEN NoResume
  ELSE
    LET sp == checkpoint[1].stepProgress
        completed == { k \in 1..Len(sp) : sp[k].status = "completed" }
        lastCompleted == CHOOSE k \in completed : \A m \in completed : m <= k
    IN
    IF completed # {} /\ IndexOf(sp[lastCompleted].step) + 1 <= Len(stepOrder)
      THEN [startFromBeginning |-> FALSE,
            resumeFromStep |-> stepOrder[IndexOf(sp[lastCompleted].step) + 1],
            preserveError |-> "null", checkpoint |-> checkpoint]
    ELSE NoResume

\* a planner that resumes at the last Completed step instead of the next one
DetectAtLastCompleted(checkpoint) ==
  IF checkpoint = <<>> THEN NoResume
  ELSE
    LET sp == checkpoint[1].stepProgress
        failed == { k \in 1..Len(sp) : sp[k].status = "failed" }
        completed == { k \in 1..Len(sp) : sp[k].status = "completed" }
        firstFailed == CHOOSE k \in failed : \A m \in failed : k <= m
        lastCompleted == CHOOSE k \in completed : \A m \in completed : m <= k
    IN
    IF failed # {}
      THEN [startFromBeginning |-> FALSE, resumeFromStep |-> sp[firstFailed].step,
            preserveError |-> checkpoint[1].lastFailure, checkpoint |-> checkpoint]
    ELSE IF completed # {}
      THEN [startFromBeginning |-> FALSE,
            resumeFromStep |-> sp[lastCompleted].step,
            preserveError |-> "null", checkpoint |-> checkpoint]
    ELSE NoResume

\* a planner that hands the checkpoint over when there is nothing to resume
DetectKeepingCheckpoint(checkpoint) ==
  IF checkpoint = <<>> THEN NoResume
  ELSE
    LET sp == checkpoint[1].stepProgress
        failed == { k \in 1..Len(sp) : sp[k].status = "failed" }
        completed == { k \in 1..Len(sp) : sp[k].status = "completed" }
        firstFailed == CHOOSE k \in failed : \A m \in failed : k <= m
        lastCompleted == CHOOSE k \in completed : \A m \in completed : m <= k
    IN
    IF failed # {}
      THEN [startFromBeginning |-> FALSE, resumeFromStep |-> sp[firstFailed].step,
            preserveError |-> checkpoint[1].lastFailure, checkpoint |-> checkpoint]
    ELSE IF completed # {} /\ IndexOf(sp[lastCompleted].step) + 1 <= Len(stepOrder)
      THEN [startFromBeginning |-> FALSE,
            resumeFromStep |-> stepOrder[IndexOf(sp[lastCompleted].step) + 1],
            preserveError |-> "null", checkpoint |-> checkpoint]
    ELSE [NoResume EXCEPT !.checkpoint = checkpoint]

\* detectResumePoint, given what loadCompletionCheckpoint returned
DetectResumePoint(checkpoint) ==
  IF checkpoint = <<>> THEN NoResume
  ELSE
    LET sp == checkpoint[1].stepProgress
        failed == { k \in 1..Len(sp) : sp[k].status = "failed" }
        completed == { k \in 1..Len(sp) : sp[k].status = "completed" }
        firstFailed == CHOOSE k \in failed : \A m \in failed : k <= m
        lastCompleted == CHOOSE k \in completed : \A m \in completed : m <= k
    IN
    IF failed # {}
      THEN [startFromBeginning |-> FALSE, resumeFromStep |-> sp[firstFailed].step,
            preserveError |-> checkpoint[1].lastFailure, checkpoint |-> checkpoint]
    ELSE IF completed # {} /\ IndexOf(sp[lastCompleted].step) + 1 <= Len(stepOrder)
      THEN [startFromBeginning |-> FALSE,
            resumeFromStep |-> stepOrder[IndexOf(sp[lastCompleted].step) + 1],
            preserveError |-> "null", checkpoint |-> checkpoint]
    ELSE NoResume

\* completionSteps.findIndex(...), falling back to the first step
\* the starting point, were the run to start one step after the step to resume
StartIndexOfNext(info) ==
  IF info.resumeFromStep # "none" /\ IndexOf(info.resumeFromStep) # 0
    THEN IF IndexOf(info.resumeFromStep) < Len(stepOrder)
           THEN IndexOf(info.resumeFromStep) + 1
           ELSE IndexOf(info.resumeFromStep)
    ELSE 1

StartIndexOf(info) ==
  IF info.resumeFromStep # "none" /\ IndexOf(info.resumeFromStep) # 0
    THEN IndexOf(info.resumeFromStep)
    ELSE 1

(* ------------------------------------------------------------------ *)
(* Telemetry sink                                                       *)
(* ------------------------------------------------------------------ *)
\* if (posthogInstance) posthogInstance.capture(event, ...), event after event
Capture(events) == captured' = IF posthogInstance THEN events ELSE captured

(* ------------------------------------------------------------------ *)
(* Tracker screen (src/screens/TrackerScreen.js)                        *)
(* ------------------------------------------------------------------ *)
\* useState of completionProgress and loading; no dialog; no handler running.
\* alert: the dialog shown; via: the listener that opened the exit dialog;
\* finishRound, exit: where finishRound and the Exit handler are at;
\* deletedWhile: the step that was executing when the round was deleted;
\* deleteReturned: what the last call of deleteAbandonedRound returned;
\* abandoned: an Exit handler has run to its end
InitialTracker ==
  [completionProgress |->
     [isCompleting |-> FALSE, currentStep |-> "null", error |-> "null",
      canRetry |-> FALSE],
   loading |-> FALSE,
   alert |-> "none",
   via |-> "none",
   finishRound |-> "idle",
   exit |-> "none",
   navigation |-> "TrackerScreen",
   deletedWhile |-> "none",
   deleteReturned |-> "none",
   abandoned |-> FALSE,
   shouldResume |-> <<>>]

(* ------------------------------------------------------------------ *)
(* The keys of the local store, by round, and the storage operations of *)
(* a run of complete in the order it issues them                        *)
(* ------------------------------------------------------------------ *)
RoundIds == { "A", "B" }

CHECKPOINT_PREFIX == "round_completion_checkpoint_"

\* `${CHECKPOINT_PREFIX}${roundId}`
CheckpointKey(roundId) == << CHECKPOINT_PREFIX, roundId >>

\* a hole collection key that leaves the round out
HolesKeyShared(roundId) == << "round_", "_holes" >>

\* `round_${roundId}_holes`
HolesKey(roundId) == << "round_", roundId, "_holes" >>

CurrentRoundKey == << "currentRound" >>

StorageOp(op, key) == [op |-> op, key |-> key]

\* the storage operations of a step function, by its place in the pipeline
StepStorageOps(roundId, k) ==
  IF stepOrder[k] = "saveCurrentHole"
    THEN << StorageOp("getItem", HolesKey(roundId)),
            StorageOp("setItem", HolesKey(roundId)) >>
  ELSE IF stepOrder[k] = "retrieveAllHoles"
    THEN << StorageOp("getItem", HolesKey(roundId)) >>
  ELSE IF stepOrder[k] = "cleanup"
    THEN << StorageOp("removeItem", HolesKey(roundId)),
            StorageOp("removeItem", CurrentRoundKey),
            StorageOp("removeItem", CheckpointKey(roundId)) >>
  ELSE << >>

RECURSIVE LoopStorageOps(_, _, _)
\* the operations of the loop from step k on, in a run whose step failAt throws
\* (0: none does): the Pending save, the step, the Completed or the Failed save,
\* and after the last step the clear
LoopStorageOps(roundId, k, failAt) ==
  IF k > Len(stepOrder)
    THEN << StorageOp("removeItem", CheckpointKey(roundId)) >>
  ELSE IF k = failAt
    THEN << StorageOp("setItem", CheckpointKey(roundId)),
            StorageOp("setItem", CheckpointKey(roundId)) >>
  ELSE << StorageOp("setItem", CheckpointKey(roundId)) >>
         \o StepStorageOps(roundId, k)
         \o << StorageOp("setItem", CheckpointKey(roundId)) >>
         \o LoopStorageOps(roundId, k + 1, failAt)

\* completeRoundSequential(roundId, ...): the load of the checkpoint, then the loop
RunStorageOps(roundId, failAt) ==
  << StorageOp("getItem", CheckpointKey(roundId)) >>
    \o LoopStorageOps(roundId, 1, failAt)

NoRun == [failAt |-> 0, at |-> 0]

\* both rounds have a hole collection stored by the screen; the pointer names
\* one of them
InitialRounds ==
  [store |-> ( CurrentRoundKey :> << [by |-> "TrackerScreen"] >> )
               @@ [key \in { HolesKey(r) : r \in RoundIds } |->
                     << [by |-> "TrackerScreen"] >>]
               @@ [key \in { CheckpointKey(r) : r \in RoundIds } |-> << >>],
   run |-> [r \in RoundIds |-> NoRun],
   last |-> [round |-> "none", op |-> "none", key |-> << >>]]

(* ------------------------------------------------------------------ *)
(* withInsightsErrorBoundary (src/services/insightsService.js)          *)
(* ------------------------------------------------------------------ *)
ErrorCodes == { "", "PGRST116", "ABORT_ERR", "42501" }

\* the errors an operation throws: what its message contains, and its code
Errors == [message : SUBSET { "network", "timeout", "database", "permission", "forbidden" },
           code : ErrorCodes]

\* code.startsWith('PGRST')
StartsWithPGRST(code) == code = "PGRST116"

\* let lastError = null
NullError == [message |-> {}, code |-> "null"]

categorizeError(error) ==
  IF error = NullError THEN "processing_error"
  ELSE IF error.message \cap { "network", "timeout", "fetch" } # {}
    THEN "network_error"
  ELSE IF StartsWithPGRST(error.code) \/ error.message \cap { "database", "relation" } # {}
    THEN "database_error"
  ELSE IF error.message \cap { "permission", "unauthorized", "forbidden" } # {}
    THEN "permission_error"
  ELSE IF "timeout" \in error.message \/ error.code = "ABORT_ERR"
    THEN "timeout_error"
  ELSE "processing_error"

\* a configuration that retries a permission error once
RETRY_CONFIG_RetryAll(errorType) ==
  IF errorType = "network_error" THEN [maxRetries |-> 3, delayMs |-> 1000]
  ELSE IF errorType = "database_error" THEN [maxRetries |-> 2, delayMs |-> 2000]
  ELSE IF errorType = "permission_error" THEN [maxRetries |-> 1, delayMs |-> 0]
  ELSE IF errorType = "processing_error" THEN [maxRetries |-> 1, delayMs |-> 5000]
  ELSE [maxRetries |-> 2, delayMs |-> 3000]

RETRY_CONFIG(errorType) ==
  IF errorType = "network_error" THEN [maxRetries |-> 3, delayMs |-> 1000]
  ELSE IF errorType = "database_error" THEN [maxRetries |-> 2, delayMs |-> 2000]
  ELSE IF errorType = "permission_error" THEN [maxRetries |-> 0, delayMs |-> 0]
  ELSE IF errorType = "processing_error" THEN [maxRetries |-> 1, delayMs |-> 5000]
  ELSE [maxRetries |-> 2, delayMs |-> 3000]

\* context.maxRetries of the wrapped functions (0 is that of the health check)
ContextMaxRetries == { 0, 1, 2 }

\* no call of a wrapped function in progress
NoCall ==
  [at |-> "idle", context |-> [maxRetries |-> 0], maxRetries |-> 0, attempt |-> 0,
   lastError |-> NullError, calls |-> 0, returned |-> "none"]

(* ------------------------------------------------------------------ *)
(* Tracker screen: the hole being played                                *)
(* ------------------------------------------------------------------ *)
\* const [totalHoles] = useState(18), scaled to the holes of the model
totalHoles == MaxHole

\* rows and columns of the shot table (two of the seven types, two of the
\* three outcomes)
TableTypes == { "Tee Shot", "Putts" }
Outcomes == { "On Target", "Slightly Off" }

\* initialHoleState[i]: no shots, every count 0
initialHoleState ==
  [h \in 1..totalHoles |->
     [shots |-> <<>>,
      shotCounts |-> [type \in TableTypes |-> [result \in Outcomes |-> 0]]]]

\* useState(1), useState(initialHoleState); no save in flight, no tap yet
InitialPlay ==
  [currentHole |-> 1, holeData |-> initialHoleState, saves |-> <<>>, taps |-> 0]

(* ------------------------------------------------------------------ *)
(* Initial state: a round in progress, nothing saved locally yet        *)
(* ------------------------------------------------------------------ *)
Init ==
  /\ storage = [EmptyStorage EXCEPT !.currentRound = <<"round">>]
  /\ rows = NoHoles
  /\ round = [is_complete |-> FALSE, gross_shots |-> 0, score |-> 0]
  /\ markCompleteUpdates = "none"
  /\ insightsTriggers = "none"
  /\ insightsRequest = "none"
  /\ now = 0
  /\ lastHoles = NoHoles
  /\ pc = "idle"
  /\ i = 0
  /\ startIndex = 0
  /\ holeNum = 0
  /\ resumeInfo = NoResume
  /\ loaded = <<>>
  /\ currentStepProgress = <<>>
  /\ results = NoResults
  /\ running = {}
  /\ inflight = <<>>
  /\ thrown = "none"
  /\ outcome = NoOutcome
  /\ previous = "none"
  /\ lastSaveOk = TRUE
  /\ eventsLeft = MaxEvents
  /\ roundDeleted = FALSE
  /\ posthogInstance = FALSE
  /\ captured = <<>>
  /\ tracker = InitialTracker
  /\ rounds = InitialRounds
  /\ boundary = NoCall
  /\ play = InitialPlay

(* ------------------------------------------------------------------ *)
(* completeRoundSequential                                              *)
(* ------------------------------------------------------------------ *)
\* the call: detectResumePoint, the resumed progress map, the start index
CallComplete ==
  /\ pc = "idle"
  /\ eventsLeft >= Recall
  /\ \E fault \in LoadFaults(storage, now) :
       LET r == LoadCompletionCheckpoint(storage, now, fault)
           info == DetectResumePoint(r.checkpoint)
       IN
       /\ storage' = r.storage
       /\ loaded' = r.checkpoint
       /\ resumeInfo' = info
       /\ currentStepProgress' =
            IF info.checkpoint # <<>> THEN info.checkpoint[1].stepProgress ELSE <<>>
       /\ startIndex' = StartIndexOf(info)
       /\ i' = StartIndexOf(info)
       /\ eventsLeft' = (IF fault = "none" THEN eventsLeft ELSE eventsLeft - 1) - Recall
  /\ results' = NoResults
  /\ pc' = "loop"
  /\ previous' = IF outcome.kind = "failure" THEN outcome.step
                  ELSE IF outcome.kind = "success" THEN "success" ELSE "none"
  /\ outcome' = [NoOutcome EXCEPT !.kind = "pending"]
  /\ UNCHANGED << remoteVars, insightsRequest, now, lastHoles, holeNum, running, inflight, thrown,
                  lastSaveOk >>

\* complete is called: the sink is told that the sequence started and, when a
\* checkpoint is resumed, that a recovery was initiated
SequenceStarted(info) ==
  << "round_completion_sequence_started" >>
    \o (IF info.checkpoint # <<>>
          THEN << "round_completion_recovery_initiated" >> ELSE << >>)

StartComplete ==
  /\ CallComplete
  /\ Capture(SequenceStarted(resumeInfo'))
  /\ UNCHANGED besideVars

CurrentStep == stepOrder[i]

\* the loop going on without waiting for the save
NoAwaitSave(q) == TRUE

\* `await saveCompletionCheckpoint(...)`: the orchestrator goes on only when
\* every save it issued has settled
AwaitSave(q) == q = <<>>

\* a loop that steps over a step
SkipNextIndex(k) == k + 2

\* i++ of the pipeline loop
NextIndex(k) == k + 1

\* a loop that does not save before the step
NoPendingSave(sp, t) == << >>

\* the save issued before a step is executed: the step Pending, no lastFailure
PendingSave(sp, t) == << NewCheckpoint(sp, "null", t) >>

\* a failure checkpoint without the failure information
FailedSaveNoInfo(sp, step, t) == << NewCheckpoint(sp, "null", t) >>

\* the save issued after a step has thrown: the step Failed, failureInfo
\* the checkpoint of a failure, were its lastFailure to name the first step
FailedSaveNamingFirst(sp, step, t) == << NewCheckpoint(sp, stepOrder[1], t) >>

FailedSave(sp, step, t) == << NewCheckpoint(sp, step, t) >>

\* a rejection that does not name the step
CompletionFailureUntagged(step, error) ==
  [kind |-> "failure", step |-> "none", error |-> error, canRetry |-> TRUE,
   persisted |-> FALSE]

\* the object thrown to the caller
CompletionFailure(step, error) ==
  [kind |-> "failure", step |-> step, error |-> error, canRetry |-> TRUE,
   persisted |-> FALSE]

\* the memory of a run, as it is when no run is in progress
ResetRun ==
  /\ i' = 0
  /\ startIndex' = 0
  /\ holeNum' = 0
  /\ resumeInfo' = NoResume
  /\ loaded' = <<>>
  /\ currentStepProgress' = <<>>
  /\ results' = NoResults
  /\ running' = {}
  /\ thrown' = "none"
  /\ lastSaveOk' = TRUE
  /\ insightsRequest' = "none"
  /\ pc' = "idle"

\* the head of a loop iteration: a step already Completed in the checkpoint is
\* skipped; any other step is marked Pending and the checkpoint save is issued
BeginIteration ==
  /\ pc = "loop"
  /\ i <= Len(stepOrder)
  /\ IF StatusOf(currentStepProgress, CurrentStep) = "completed"
       THEN /\ i' = NextIndex(i)
            /\ UNCHANGED << pc, currentStepProgress, inflight >>
       ELSE /\ currentStepProgress' =
                 SetStatus(currentStepProgress, CurrentStep, "pending")
            /\ inflight' = inflight \o PendingSave(currentStepProgress', now)
            /\ pc' = "savePending"
            /\ UNCHANGED i
  /\ UNCHANGED << storage, remoteVars, insightsRequest, now, lastHoles, startIndex, holeNum,
                  resumeInfo, loaded, results, running, thrown, outcome, previous,
                  lastSaveOk, eventsLeft >>
  /\ UNCHANGED otherVars

\* a save whose storage failure reaches the caller of complete
SaveSettlesOrThrows ==
  /\ inflight # <<>>
  /\ \E f \in Fails :
       /\ eventsLeft' = Spend(f)
       /\ IF f
            THEN /\ outcome' = CompletionFailure(CurrentStep, "StorageError")
                 /\ inflight' = <<>>
                 /\ ResetRun
                 /\ UNCHANGED storage
            ELSE /\ storage' = SetItem(storage, "checkpoint", Head(inflight))
                 /\ lastSaveOk' = TRUE
                 /\ inflight' = Tail(inflight)
                 /\ UNCHANGED << pc, i, startIndex, holeNum, resumeInfo, loaded,
                                 currentStepProgress, results, running, thrown,
                                 outcome, insightsRequest >>
  /\ UNCHANGED << remoteVars, now, lastHoles, previous >>
  /\ UNCHANGED otherVars

\* AsyncStorage.setItem of saveCompletionCheckpoint settles; a failure is
\* caught and logged
SaveSettles ==
  /\ inflight # <<>>
  /\ \E f \in Fails :
       /\ storage' = IF f THEN storage ELSE SetItem(storage, "checkpoint", Head(inflight))
       /\ lastSaveOk' = ~f
       /\ eventsLeft' = Spend(f)
  /\ inflight' = Tail(inflight)
  /\ UNCHANGED << remoteVars, insightsRequest, now, lastHoles, pc, i, startIndex, holeNum,
                  resumeInfo, loaded, currentStepProgress, results, running, thrown,
                  outcome, previous >>
  /\ UNCHANGED otherVars

\* step.fn(results) is called
CallStep ==
  /\ pc = "savePending"
  /\ AwaitSave(inflight)
  /\ running' = running \cup {CurrentStep}
  /\ holeNum' = IF CurrentStep = "saveToDatabase" THEN 1 ELSE 0
  /\ pc' = "exec"
  /\ UNCHANGED << storage, remoteVars, insightsRequest, now, lastHoles, i, startIndex, resumeInfo,
                  loaded, currentStepProgress, results, inflight, thrown, outcome,
                  previous, lastSaveOk, eventsLeft >>

\* a step whose report to the sink is not guarded: without a sink the capture
\* throws inside the try and the step is marked Failed
InvokeStepUnguarded ==
  IF posthogInstance
    THEN /\ CallStep
         /\ Capture(<< "round_completion_step_started" >>)
         /\ UNCHANGED besideVars
    ELSE /\ pc = "savePending"
         /\ AwaitSave(inflight)
         /\ currentStepProgress' = SetStatus(currentStepProgress, CurrentStep, "failed")
         /\ inflight' = inflight \o FailedSave(currentStepProgress', CurrentStep, now)
         /\ thrown' = "TypeError"
         /\ pc' = "saveFailed"
         /\ UNCHANGED << storage, remoteVars, insightsRequest, now, lastHoles, i,
                         startIndex, holeNum, resumeInfo, loaded, results, running,
                         outcome, previous, lastSaveOk, eventsLeft >>
         /\ UNCHANGED otherVars

\* the step is reported to the sink as started, and called
InvokeStep ==
  /\ CallStep
  /\ Capture(<< "round_completion_step_started" >>)
  /\ UNCHANGED besideVars

\* the step resolved: its result is kept, it is marked Completed, the save is issued
StepSucceeds(step, newResults) ==
  /\ results' = [newResults EXCEPT !.done = @ \cup {step}]
  /\ currentStepProgress' = SetStatus(currentStepProgress, step, "completed")
  /\ inflight' = Append(inflight, NewCheckpoint(currentStepProgress', "null", now))
  /\ running' = running \ {step}
  /\ holeNum' = 0
  /\ thrown' = "none"
  /\ pc' = "saveCompleted"
  /\ UNCHANGED << now, i, startIndex, resumeInfo, loaded, outcome, previous,
                  lastSaveOk >>

\* the step threw: it is marked Failed, the save with failureInfo is issued
StepFails(step, error) ==
  /\ currentStepProgress' = SetStatus(currentStepProgress, step, "failed")
  /\ inflight' = inflight \o FailedSave(currentStepProgress', step, now)
  /\ running' = running \ {step}
  /\ holeNum' = 0
  /\ thrown' = error
  /\ pc' = "saveFailed"
  /\ UNCHANGED << now, i, startIndex, resumeInfo, loaded, results, outcome,
                  previous, lastSaveOk >>

Executing(step) == pc = "exec" /\ i <= Len(stepOrder) /\ CurrentStep = step

(* ------------------------------------------------------------------ *)
(* The seven steps                                                      *)
(* ------------------------------------------------------------------ *)
\* existingData[currentHole] = holeData
MergeHole(existingData, h, d) ==
  [n \in DOMAIN existingData \cup {h} |-> IF n = h THEN d ELSE existingData[n]]

\* step 1: merge the call's hole record (currentHole, holeData) into the stored
\* hole collection
saveCurrentHoleData(currentHole, holeData) ==
  /\ Executing("saveCurrentHole")
  /\ \E f \in Fails :
       /\ eventsLeft' = Spend(f)
       /\ IF f
            THEN /\ StepFails("saveCurrentHole", "StorageError")
                 /\ UNCHANGED << storage, lastHoles >>
            ELSE LET existingDataStr == GetItem(storage, "holes")
                     existingData ==
                       IF existingDataStr # <<>> THEN existingDataStr[1] ELSE NoHoles
                     merged == MergeHole(existingData, currentHole, holeData)
                 IN
                 /\ storage' = SetItem(storage, "holes", merged)
                 /\ lastHoles' = merged
                 /\ StepSucceeds("saveCurrentHole", results)
  /\ UNCHANGED << remoteVars, insightsRequest, insightsRequest >>
  /\ UNCHANGED otherVars

\* step 2: read the stored hole collection; it must exist
retrieveAllHoleData ==
  /\ Executing("retrieveAllHoles")
  /\ \E f \in Fails :
       /\ eventsLeft' = Spend(f)
       /\ IF f
            THEN StepFails("retrieveAllHoles", "StorageError")
            ELSE IF GetItem(storage, "holes") = <<>>
              THEN StepFails("retrieveAllHoles", "No hole data found in local storage")
              ELSE StepSucceeds("retrieveAllHoles",
                                [results EXCEPT !.data = GetItem(storage, "holes")])
  /\ UNCHANGED << storage, lastHoles, remoteVars, insightsRequest >>
  /\ UNCHANGED otherVars

\* a validation that accepts a hole without shots
ValidHolesUnchecked(holeData) == DOMAIN holeData

\* the holes validateHoleData accepts: those with a non-empty shots array
ValidHoles(holeData) == { n \in DOMAIN holeData : Len(holeData[n]) # 0 }

\* step 3: previousResults.retrieveAllHoles.data is read first, which throws a
\* TypeError when this run has no result of retrieveAllHoles
validateHoleData ==
  /\ Executing("validateData")
  /\ IF results.data = <<>>
       THEN StepFails("validateData", "TypeError")
       ELSE IF ValidHoles(results.data[1]) = {}
         THEN StepFails("validateData", "No valid holes found in data")
         ELSE StepSucceeds("validateData",
                           [results EXCEPT !.validHoles = <<ValidHoles(results.data[1])>>])
  /\ UNCHANGED << storage, lastHoles, remoteVars, insightsRequest, eventsLeft >>
  /\ UNCHANGED otherVars

\* a row without the stroke count
HoleRowWithoutScore(holeInfo) == [hole_data |-> holeInfo, total_score |-> 0]

\* the row saveHoleData upserts for a hole
HoleRow(holeInfo) == [hole_data |-> holeInfo, total_score |-> Len(holeInfo)]

\* an insert that, on a conflict, adds to the stored row instead of replacing it
UpsertAccumulating(table, n, row) ==
  [m \in DOMAIN table \cup {n} |->
     IF m = n
       THEN IF n \in DOMAIN table
              THEN [hole_data |-> row.hole_data,
                    total_score |-> table[n].total_score + row.total_score]
              ELSE row
       ELSE table[m]]

\* upsert on (round_id, hole_number)
Upsert(table, n, row) ==
  [m \in DOMAIN table \cup {n} |-> IF m = n THEN row ELSE table[m]]

\* step 4, reading its argument: previousResults.retrieveAllHoles.data throws
\* a TypeError when this run has no result of retrieveAllHoles
saveHolesToDatabaseThrows ==
  /\ Executing("saveToDatabase")
  /\ results.data = <<>>
  /\ StepFails("saveToDatabase", "TypeError")
  /\ UNCHANGED << storage, lastHoles, remoteVars, insightsRequest, eventsLeft >>
  /\ UNCHANGED otherVars

\* step 4, one iteration of its loop over the holes
saveHolesToDatabaseHole ==
  /\ Executing("saveToDatabase")
  /\ results.data # <<>>
  /\ holeNum <= MaxHole
  /\ LET holeData == results.data[1] IN
     IF holeNum \notin DOMAIN holeData \/ Len(holeData[holeNum]) = 0
       THEN /\ holeNum' = holeNum + 1
            /\ UNCHANGED << rows, eventsLeft, currentStepProgress, inflight, running,
                            thrown, pc, results, now, i, startIndex, resumeInfo,
                            loaded, outcome, previous, lastSaveOk >>
       ELSE \E f \in Fails :
              /\ eventsLeft' = Spend(f)
              /\ IF f
                   THEN /\ StepFails("saveToDatabase", "RemoteError")
                        /\ UNCHANGED rows
                   ELSE /\ rows' = Upsert(rows, holeNum, HoleRow(holeData[holeNum]))
                        /\ holeNum' = holeNum + 1
                        /\ UNCHANGED << currentStepProgress, inflight, running, thrown,
                                        pc, results, now, i, startIndex,
                                        resumeInfo, loaded, outcome, previous,
                                        lastSaveOk >>
  /\ UNCHANGED << storage, lastHoles, round, markCompleteUpdates, insightsTriggers,
                  insightsRequest >>
  /\ UNCHANGED otherVars

\* step 4, after the last hole
saveHolesToDatabaseDone ==
  /\ Executing("saveToDatabase")
  /\ results.data # <<>>
  /\ holeNum > MaxHole
  /\ StepSucceeds("saveToDatabase", results)
  /\ UNCHANGED << storage, lastHoles, remoteVars, insightsRequest, eventsLeft >>
  /\ UNCHANGED otherVars

RECURSIVE SumScores(_, _)
\* grossShots += hole.total_score over the hole records
SumScores(table, S) ==
  IF S = {} THEN 0
  ELSE LET n == CHOOSE m \in S : TRUE
       IN table[n].total_score + SumScores(table, S \ {n})

\* an update whose score is the par less the shots
CompletedRoundParLessShots(table) ==
  [is_complete |-> TRUE,
   gross_shots |-> SumScores(table, DOMAIN table),
   score |-> coursePar - SumScores(table, DOMAIN table)]

\* the update completeRound makes to the round record
CompletedRound(table) ==
  [is_complete |-> TRUE,
   gross_shots |-> SumScores(table, DOMAIN table),
   score |-> SumScores(table, DOMAIN table) - coursePar]

\* step 5: completeRound. When the round record has been deleted, the read of
\* the record with .single() fails, unless the deletion comes between that read
\* and the update, which then matches no record and reports no error
markRoundComplete ==
  /\ Executing("markComplete")
  /\ \E f \in Fails :
       /\ eventsLeft' = Spend(f)
       /\ IF f
            THEN /\ StepFails("markComplete", "RemoteError")
                 /\ UNCHANGED << round, markCompleteUpdates >>
            ELSE IF roundDeleted
              THEN \/ /\ StepFails("markComplete", "RemoteError")
                      /\ UNCHANGED << round, markCompleteUpdates >>
                   \/ /\ tracker.deletedWhile = "markComplete"
                      /\ markCompleteUpdates' = Bump(markCompleteUpdates)
                      /\ StepSucceeds("markComplete", results)
                      /\ UNCHANGED round
            ELSE /\ round' = CompletedRound(rows)
                 /\ markCompleteUpdates' = Bump(markCompleteUpdates)
                 /\ StepSucceeds("markComplete", results)
  /\ UNCHANGED << storage, lastHoles, rows, insightsTriggers, insightsRequest >>
  /\ UNCHANGED otherVars

\* a step 6 that fails when issuing the request throws
generateInsightsOrThrow ==
  /\ Executing("generateInsights")
  /\ \E f \in Fails :
       /\ eventsLeft' = Spend(f)
       /\ IF f
            THEN /\ StepFails("generateInsights", "RemoteError")
                 /\ UNCHANGED << insightsTriggers, insightsRequest >>
            ELSE /\ insightsTriggers' = Bump(insightsTriggers)
                 /\ insightsRequest' = "pending"
                 /\ StepSucceeds("generateInsights", results)
  /\ UNCHANGED << storage, lastHoles, rows, round, markCompleteUpdates >>
  /\ UNCHANGED otherVars

\* step 6: the request is issued and not awaited; when issuing it throws, that
\* is caught, and the step reports success either way
generateInsights ==
  /\ Executing("generateInsights")
  /\ \E f \in Fails :
       /\ eventsLeft' = Spend(f)
       /\ insightsTriggers' = IF f THEN insightsTriggers ELSE Bump(insightsTriggers)
       /\ insightsRequest' = IF f THEN insightsRequest ELSE "pending"
  /\ StepSucceeds("generateInsights", results)
  /\ UNCHANGED << storage, lastHoles, rows, round, markCompleteUpdates >>
  /\ UNCHANGED otherVars

\* the removals of cleanupLocalStorage that can throw
CleanupFaults ==
  {"none"} \cup (IF eventsLeft > 0 THEN {"holes", "currentRound", "checkpoint"} ELSE {})

\* a cleanup that leaves the currentRound pointer
CleanedStorageKeepsPointer(s, fault) ==
  IF fault = "holes" THEN s
  ELSE RemoveItem(RemoveItem(s, "holes"), "checkpoint")

\* the store after cleanupLocalStorage, when the removal named by fault throws
\* (the throw of the checkpoint removal is caught by clearCompletionCheckpoint)
CleanedStorage(s, fault) ==
  IF fault = "holes" THEN s
  ELSE IF fault = "currentRound" THEN RemoveItem(s, "holes")
  ELSE IF fault = "checkpoint" THEN RemoveItem(RemoveItem(s, "holes"), "currentRound")
  ELSE RemoveItem(RemoveItem(RemoveItem(s, "holes"), "currentRound"), "checkpoint")

\* step 7
cleanupLocalStorage ==
  /\ Executing("cleanup")
  /\ \E fault \in CleanupFaults :
       /\ eventsLeft' = IF fault = "none" THEN eventsLeft ELSE eventsLeft - 1
       /\ storage' = CleanedStorage(storage, fault)
       /\ IF fault \in {"holes", "currentRound"}
            THEN StepFails("cleanup", "StorageError")
            ELSE StepSucceeds("cleanup", results)
  /\ UNCHANGED << lastHoles, remoteVars, insightsRequest >>
  /\ UNCHANGED otherVars

(* ------------------------------------------------------------------ *)
(* The end of a step and of the run                                     *)
(* ------------------------------------------------------------------ *)
\* the Completed save has settled: next iteration
ContinueLoop ==
  /\ pc = "saveCompleted"
  /\ AwaitSave(inflight)
  /\ i' = NextIndex(i)
  /\ pc' = "loop"
  /\ UNCHANGED << storage, remoteVars, insightsRequest, now, lastHoles, startIndex, holeNum,
                  resumeInfo, loaded, currentStepProgress, results, running, inflight,
                  thrown, outcome, previous, lastSaveOk, eventsLeft >>

\* logStepSuccess, and the next iteration
AdvanceAfterSave ==
  /\ ContinueLoop
  /\ Capture(<< "round_completion_step_completed" >>)
  /\ UNCHANGED besideVars

\* the Failed save has settled: complete rejects
Rethrow ==
  /\ pc = "saveFailed"
  /\ AwaitSave(inflight)
  /\ outcome' = [CompletionFailure(CurrentStep, thrown) EXCEPT !.persisted = lastSaveOk]
  /\ ResetRun
  /\ UNCHANGED << storage, remoteVars, now, lastHoles, inflight, previous,
                  eventsLeft >>

\* logStepFailure, the failure passing through the outer catch, and the rejection
RejectAfterSave ==
  /\ Rethrow
  /\ Capture(<< "round_completion_step_failed",
                "round_completion_sequence_abandoned" >>)
  /\ UNCHANGED besideVars

\* after the loop: clearCompletionCheckpoint, whose failure is caught, and the
\* success result
ReturnSuccess ==
  /\ pc = "loop"
  /\ i > Len(stepOrder)
  /\ \E f \in Fails :
       /\ eventsLeft' = Spend(f)
       /\ storage' = IF f THEN storage ELSE RemoveItem(storage, "checkpoint")
       /\ outcome' = [NoOutcome EXCEPT !.kind = "success", !.persisted = ~f]
  /\ ResetRun
  /\ UNCHANGED << remoteVars, now, lastHoles, inflight, previous >>

\* the end of a run whose every step succeeded
FinishComplete ==
  /\ ReturnSuccess
  /\ Capture(<< "round_completion_sequence_completed" >>)
  /\ UNCHANGED besideVars

(* ------------------------------------------------------------------ *)
(* The environment                                                      *)
(* ------------------------------------------------------------------ *)
\* the process dies during a run: its memory is lost, the stores stay
ProcessDies ==
  /\ pc # "idle"
  /\ eventsLeft > 0
  /\ eventsLeft' = eventsLeft - 1
  /\ outcome' = [NoOutcome EXCEPT !.kind = "crashed",
                                  !.step = IF pc = "exec" THEN CurrentStep ELSE "none",
                                  !.persisted = lastSaveOk]
  /\ inflight' = <<>>
  /\ ResetRun
  /\ UNCHANGED << storage, remoteVars, now, lastHoles, previous >>

\* the process dies during a run, seen from the pipeline alone
Crash ==
  /\ ProcessDies
  /\ UNCHANGED otherVars

\* time passes between runs: the lifetime of a checkpoint, or an hour more
Tick(hours) ==
  /\ pc = "idle"
  /\ eventsLeft > 0
  /\ eventsLeft' = eventsLeft - 1
  /\ now' = now + hours
  /\ UNCHANGED << storage, remoteVars, insightsRequest, lastHoles, pc, i, startIndex, holeNum,
                  resumeInfo, loaded, currentStepProgress, results, running, inflight,
                  thrown, outcome, previous, lastSaveOk >>
  /\ UNCHANGED otherVars

\* the tracker screen saves a hole of the current round between runs
saveCurrentHoleToStorage(h, d) ==
  /\ pc = "idle"
  /\ eventsLeft > 0
  /\ GetItem(storage, "currentRound") # <<>>
  /\ eventsLeft' = eventsLeft - 1
  /\ LET existingDataStr == GetItem(storage, "holes")
         existingData == IF existingDataStr # <<>> THEN existingDataStr[1] ELSE NoHoles
     IN /\ storage' = SetItem(storage, "holes", MergeHole(existingData, h, d))
        /\ lastHoles' = MergeHole(existingData, h, d)
  /\ UNCHANGED << remoteVars, insightsRequest, now, pc, i, startIndex, holeNum, resumeInfo, loaded,
                  currentStepProgress, results, running, inflight, thrown, outcome,
                  previous, lastSaveOk >>
  /\ UNCHANGED otherVars

\* the analysis request settles, at any time of the run after it was issued:
\* with a result, with an error result, or its promise is rejected; the
\* handlers only log
InsightsSettles(result) ==
  /\ insightsRequest = "pending"
  /\ result # "ok" => eventsLeft > 0
  /\ insightsRequest' = result
  /\ eventsLeft' = IF result = "ok" THEN eventsLeft ELSE eventsLeft - 1
  /\ UNCHANGED << storage, remoteVars, now, lastHoles, pc, i, startIndex, holeNum,
                  resumeInfo, loaded, currentStepProgress, results, running, inflight,
                  thrown, outcome, previous, lastSaveOk >>
  /\ UNCHANGED otherVars


(* ------------------------------------------------------------------ *)
(* Tracker screen: finishing and abandoning the round                   *)
(* ------------------------------------------------------------------ *)
\* what the screen's actions leave alone besides the pipeline
screenFrame == << posthogInstance, rounds, boundary, play >>

\* the memory of a run and the remote tables
runVars == << rows, round, markCompleteUpdates, insightsTriggers, insightsRequest,
              now, lastHoles, pc, i, startIndex, holeNum, resumeInfo, loaded,
              currentStepProgress, results, running, inflight, thrown, outcome,
              previous, lastSaveOk >>

\* the screen is mounted and no dialog covers it
Operable == tracker.navigation = "TrackerScreen" /\ tracker.alert = "none"

\* if (round && round.id && !completionProgress.isCompleting)
MayAbandon == ~tracker.completionProgress.isCompleting

\* a listener of a request to leave: the exit dialog, or the request goes through
LeaveRequested(listener) ==
  /\ Operable
  /\ tracker.exit = "none"
  /\ tracker' = IF MayAbandon
                  THEN [tracker EXCEPT !.alert = "ExitRound", !.via = listener]
                  ELSE [tracker EXCEPT !.navigation = "left"]
  /\ UNCHANGED << storage, runVars, eventsLeft, roundDeleted, captured, screenFrame >>

\* navigation.addListener('beforeRemove', ...)
beforeRemove == LeaveRequested("beforeRemove")

\* BackHandler.addEventListener('hardwareBackPress', ...)
hardwareBackPress == LeaveRequested("hardwareBackPress")

\* "Stay"
ExitStay ==
  /\ tracker.alert = "ExitRound"
  /\ tracker' = [tracker EXCEPT !.alert = "none", !.via = "none"]
  /\ UNCHANGED << storage, runVars, eventsLeft, roundDeleted, captured, screenFrame >>

\* "Exit": setLoading(true), and the handler awaits deleteAbandonedRound
ExitConfirm ==
  /\ tracker.alert = "ExitRound"
  /\ tracker' = [tracker EXCEPT !.alert = "none", !.via = "none", !.loading = TRUE,
                                !.exit = "deleteAbandonedRound"]
  /\ UNCHANGED << storage, runVars, eventsLeft, roundDeleted, captured, screenFrame >>

\* a delete request that does not look at is_complete
DeletedWhatever(deleted, record) == TRUE

\* .delete().eq("id", round_id).eq("is_complete", false)
Deleted(deleted, record) == deleted \/ ~record.is_complete

\* deleteAbandonedRound settles: true, or false after an error result or a throw,
\* which it catches; the handler goes on to the removals whatever it returned
deleteAbandonedRound ==
  /\ tracker.exit = "deleteAbandonedRound"
  /\ \E f \in Fails :
       /\ eventsLeft' = Spend(f)
       /\ roundDeleted' = IF f THEN roundDeleted ELSE Deleted(roundDeleted, round)
       /\ tracker' = [tracker EXCEPT
            !.exit = "removeHoles",
            !.deleteReturned = IF f THEN "false" ELSE "true",
            !.deletedWhile =
               IF ~f /\ ~roundDeleted /\ roundDeleted' /\ pc = "exec"
                 THEN CurrentStep ELSE @]
  /\ UNCHANGED << storage, runVars, captured, screenFrame >>

\* a handler that stays on the screen when a removal throws
LeavesUnlessThrown(t) ==
  [t EXCEPT !.navigation = IF t.exit = "removeHoles" THEN @ ELSE "left",
            !.loading = FALSE, !.exit = "none", !.abandoned = TRUE]

\* the end of the Exit handler: navigation.dispatch(e.data.action) or
\* navigation.goBack(), in the try or in the catch, and setLoading(false)
Leaves(t) ==
  [t EXCEPT !.navigation = "left", !.loading = FALSE, !.exit = "none",
            !.abandoned = TRUE]

\* await AsyncStorage.removeItem(`round_${round.id}_holes`) settles
ExitRemoveHoles ==
  /\ tracker.exit = "removeHoles"
  /\ \E f \in Fails :
       /\ eventsLeft' = Spend(f)
       /\ IF f
            THEN /\ tracker' = Leaves(tracker)
                 /\ UNCHANGED storage
            ELSE /\ storage' = RemoveItem(storage, "holes")
                 /\ tracker' = [tracker EXCEPT !.exit = "removeCurrentRound"]
  /\ UNCHANGED << runVars, roundDeleted, captured, screenFrame >>

\* await AsyncStorage.removeItem("currentRound") settles
ExitRemoveCurrentRound ==
  /\ tracker.exit = "removeCurrentRound"
  /\ \E f \in Fails :
       /\ eventsLeft' = Spend(f)
       /\ storage' = IF f THEN storage ELSE RemoveItem(storage, "currentRound")
       /\ tracker' = Leaves(tracker)
  /\ UNCHANGED << runVars, roundDeleted, captured, screenFrame >>

\* handleNextHole at the last hole, called by the hole navigator, which is shown
\* whatever loading and isCompleting are
handleNextHole ==
  /\ Operable
  /\ tracker.finishRound = "idle"
  /\ pc = "idle"
  /\ tracker' = [tracker EXCEPT !.alert = "EndOfRound"]
  /\ UNCHANGED << storage, runVars, eventsLeft, roundDeleted, captured, screenFrame >>

\* "Cancel"
EndOfRoundCancel ==
  /\ tracker.alert = "EndOfRound"
  /\ tracker' = [tracker EXCEPT !.alert = "none"]
  /\ UNCHANGED << storage, runVars, eventsLeft, roundDeleted, captured, screenFrame >>

\* finishRound, up to its first await
Completing(t) ==
  [t EXCEPT !.alert = "none",
            !.completionProgress =
               [isCompleting |-> TRUE, currentStep |-> "null", error |-> "null",
                canRetry |-> FALSE],
            !.finishRound = "detectResumePoint"]

\* "Finish Round"
EndOfRoundFinish ==
  /\ tracker.alert = "EndOfRound"
  /\ tracker' = Completing(tracker)
  /\ UNCHANGED << storage, runVars, eventsLeft, roundDeleted, captured, screenFrame >>

\* the button "Complete Round", shown and enabled when the screen is neither
\* completing, nor showing an error, nor loading
finishRound ==
  /\ Operable
  /\ ~tracker.completionProgress.isCompleting
  /\ tracker.completionProgress.error = "null"
  /\ ~tracker.loading
  /\ tracker.finishRound = "idle"
  /\ pc = "idle"
  /\ tracker' = Completing(tracker)
  /\ UNCHANGED << storage, runVars, eventsLeft, roundDeleted, captured, screenFrame >>

\* await detectResumePoint(round.id) settles: the dialog when a failure is kept
finishRoundDetects ==
  /\ tracker.finishRound = "detectResumePoint"
  /\ tracker.alert = "none"
  /\ LET r == LoadCompletionCheckpoint(storage, now, "none")
         info == DetectResumePoint(r.checkpoint)
     IN
     /\ storage' = r.storage
     /\ tracker' = IF info.checkpoint # <<>> /\ info.preserveError # "null"
                     THEN [tracker EXCEPT !.alert = "ResumeRoundCompletion",
                                          !.finishRound = "alert"]
                     ELSE [tracker EXCEPT !.finishRound = "call"]
  /\ UNCHANGED << runVars, eventsLeft, roundDeleted, captured, screenFrame >>

\* the dialog, were "Start Over" to leave the checkpoint where it is
ResumeAlertKeeps(shouldResume) ==
  /\ tracker.alert = "ResumeRoundCompletion"
  /\ tracker' = [tracker EXCEPT !.alert = "none", !.finishRound = "call",
                                !.shouldResume = << shouldResume >>]
  /\ UNCHANGED << storage, runVars, eventsLeft, roundDeleted, captured, screenFrame >>

\* "Resume", or "Start Over" with its clearCompletionCheckpoint, which swallows
\* the failure of its removeItem
ResumeAlert(shouldResume) ==
  /\ tracker.alert = "ResumeRoundCompletion"
  /\ \E f \in (IF shouldResume THEN {FALSE} ELSE Fails) :
       /\ eventsLeft' = Spend(f)
       /\ storage' = IF shouldResume \/ f THEN storage
                                          ELSE RemoveItem(storage, "checkpoint")
  /\ tracker' = [tracker EXCEPT !.alert = "none", !.finishRound = "call",
                                !.shouldResume = << shouldResume >>]
  /\ UNCHANGED << runVars, roundDeleted, captured, screenFrame >>

\* await completeRoundSequential(round.id, currentHole, holeData[currentHole], user.id)
finishRoundCalls ==
  /\ tracker.finishRound = "call"
  /\ CallComplete
  /\ Capture(SequenceStarted(resumeInfo'))
  /\ tracker' = [tracker EXCEPT !.finishRound = "running", !.deletedWhile = "none",
                                !.shouldResume = <<>>]
  /\ UNCHANGED << roundDeleted, screenFrame >>

\* the call has settled. After a success: the progress state is cleared and
\* navigation.replace("ScorecardScreen"). After a rejection: the catch block
\* reads stepDescriptions, a const of the try block, while it builds the
\* argument of setCompletionProgress, so a ReferenceError leaves the state as
\* it was
finishRoundSettles ==
  /\ tracker.finishRound = "running"
  /\ pc = "idle"
  /\ outcome.kind \in {"success", "failure"}
  /\ tracker' =
       IF outcome.kind = "success"
         THEN [tracker EXCEPT
                 !.completionProgress = InitialTracker.completionProgress,
                 !.navigation = IF @ = "TrackerScreen" THEN "ScorecardScreen" ELSE @,
                 !.finishRound = "idle"]
         ELSE [tracker EXCEPT !.finishRound = "idle"]
  /\ UNCHANGED << storage, runVars, eventsLeft, roundDeleted, captured, screenFrame >>

\* the process dies and the application is started again: the memory of the
\* run and of the screen is lost; the screen resumes the round that
\* "currentRound" names, and belongs to another round when there is none
Relaunch ==
  /\ eventsLeft > 0
  /\ tracker.navigation = "TrackerScreen" \/ pc # "idle"
  /\ IF pc # "idle"
       THEN ProcessDies
       ELSE /\ eventsLeft' = eventsLeft - 1
            /\ UNCHANGED << storage, runVars >>
  /\ tracker' = IF GetItem(storage, "currentRound") # <<>>
                  THEN InitialTracker
                  ELSE [InitialTracker EXCEPT !.navigation = "left"]
  /\ UNCHANGED << roundDeleted, captured, screenFrame >>

Next ==
  \/ StartComplete
  \/ BeginIteration
  \/ SaveSettles
  \/ InvokeStep
  \/ \E h \in HoleNums, d \in ShotSeqs : saveCurrentHoleData(h, d)
  \/ retrieveAllHoleData
  \/ validateHoleData
  \/ saveHolesToDatabaseThrows
  \/ saveHolesToDatabaseHole
  \/ saveHolesToDatabaseDone
  \/ markRoundComplete
  \/ generateInsights
  \/ cleanupLocalStorage
  \/ AdvanceAfterSave
  \/ RejectAfterSave
  \/ FinishComplete
  \/ Crash
  \/ \E hours \in {CHECKPOINT_EXPIRY_HOURS, CHECKPOINT_EXPIRY_HOURS + 1} : Tick(hours)
  \/ \E h \in HoleNums, d \in ShotSeqs : saveCurrentHoleToStorage(h, d)
  \/ \E result \in {"ok", "error", "rejected"} : InsightsSettles(result)

Spec == Init /\ [][Next]_vars

(* ------------------------------------------------------------------ *)
(* The pipeline retried by its caller: no process death, no edit, no    *)
(* expiry; the call's hole record has a shot; every awaited operation    *)
(* settles and the caller calls complete again                          *)
(* ------------------------------------------------------------------ *)
PlayedShots == ShotSeqs \ { <<>> }

LiveNext ==
  \/ StartComplete
  \/ BeginIteration
  \/ SaveSettles
  \/ InvokeStep
  \/ \E h \in HoleNums, d \in PlayedShots : saveCurrentHoleData(h, d)
  \/ retrieveAllHoleData
  \/ validateHoleData
  \/ saveHolesToDatabaseThrows
  \/ saveHolesToDatabaseHole
  \/ saveHolesToDatabaseDone
  \/ markRoundComplete
  \/ generateInsights
  \/ cleanupLocalStorage
  \/ AdvanceAfterSave
  \/ RejectAfterSave
  \/ FinishComplete

LiveSpec == Init /\ [][LiveNext]_vars /\ WF_vars(LiveNext)

(* ------------------------------------------------------------------ *)
(* The screen with the pipeline it calls                                *)
(* ------------------------------------------------------------------ *)
\* the steps of a run that finishRound started, at the last hole
RunNext ==
  \/ BeginIteration
  \/ SaveSettles
  \/ InvokeStep
  \/ \E d \in PlayedShots : saveCurrentHoleData(MaxHole, d)
  \/ retrieveAllHoleData
  \/ validateHoleData
  \/ saveHolesToDatabaseThrows
  \/ saveHolesToDatabaseHole
  \/ saveHolesToDatabaseDone
  \/ markRoundComplete
  \/ generateInsights
  \/ cleanupLocalStorage
  \/ AdvanceAfterSave
  \/ RejectAfterSave
  \/ FinishComplete

\* what the user and the handlers of the screen do
TrackerNext ==
  \/ beforeRemove
  \/ hardwareBackPress
  \/ ExitStay
  \/ ExitConfirm
  \/ deleteAbandonedRound
  \/ ExitRemoveHoles
  \/ ExitRemoveCurrentRound
  \/ handleNextHole
  \/ EndOfRoundCancel
  \/ EndOfRoundFinish
  \/ finishRound
  \/ finishRoundDetects
  \/ \E shouldResume \in BOOLEAN : ResumeAlert(shouldResume)
  \/ finishRoundCalls
  \/ finishRoundSettles

ScreenNext ==
  \/ RunNext
  \/ TrackerNext
  \/ Relaunch

ScreenSpec == Init /\ [][ScreenNext]_vars

\* the screen while the process lives; what the Exit handler awaits settles
ScreenLiveNext ==
  \/ RunNext
  \/ TrackerNext

ScreenLiveSpec ==
  /\ Init
  /\ [][ScreenLiveNext]_vars
  /\ WF_vars(deleteAbandonedRound)
  /\ WF_vars(ExitRemoveHoles)
  /\ WF_vars(ExitRemoveCurrentRound)


(* ------------------------------------------------------------------ *)
(* Runs of complete for two rounds over one AsyncStorage                *)
(* ------------------------------------------------------------------ *)
\* what the runs over the keyed store leave alone
roundsFrame ==
  << completionVars, roundDeleted, posthogInstance, captured, tracker, boundary,
     play >>

\* the steps at which a run may be made to fail: none, or one of the seven
FailurePoints == 0..Len(stepOrder)

\* completeRoundSequential(roundId, ...) is called for a round that has no run
StartRun(roundId, failAt) ==
  /\ rounds.run[roundId].at = 0
  /\ rounds' = [rounds EXCEPT !.run[roundId] = [failAt |-> failAt, at |-> 1]]
  /\ UNCHANGED roundsFrame

\* the store after a storage operation made by a run of roundId
AfterStorageOp(store, roundId, o) ==
  IF o.op = "setItem" THEN [store EXCEPT ![o.key] = << [by |-> roundId] >>]
  ELSE IF o.op = "removeItem" THEN [store EXCEPT ![o.key] = << >>]
  ELSE store

\* the next storage operation of the run of roundId
RoundStorageOp(roundId) ==
  /\ rounds.run[roundId].at > 0
  /\ LET ops == RunStorageOps(roundId, rounds.run[roundId].failAt)
         at == rounds.run[roundId].at
         o == ops[at]
     IN
     rounds' = [store |-> AfterStorageOp(rounds.store, roundId, o),
                run |-> [rounds.run EXCEPT ![roundId].at =
                           IF at = Len(ops) THEN 0 ELSE at + 1],
                last |-> [round |-> roundId, op |-> o.op, key |-> o.key]]
  /\ UNCHANGED roundsFrame

RoundsNext ==
  \/ \E roundId \in RoundIds, failAt \in FailurePoints : StartRun(roundId, failAt)
  \/ \E roundId \in RoundIds : RoundStorageOp(roundId)

RoundsSpec == Init /\ [][RoundsNext]_vars

(* ------------------------------------------------------------------ *)
(* The pipeline with and without a telemetry sink                       *)
(* ------------------------------------------------------------------ *)
\* setPostHogInstance(posthog): the sink is set, or is null
setPostHogInstance(posthog) ==
  /\ posthogInstance # posthog
  /\ posthogInstance' = posthog
  /\ UNCHANGED << completionVars, roundDeleted, captured, tracker, rounds, boundary,
                  play >>

\* the run steps, in a process whose sink may be set or removed at any time
TelemetryNext ==
  \/ StartComplete
  \/ BeginIteration
  \/ SaveSettles
  \/ InvokeStep
  \/ \E d \in PlayedShots : saveCurrentHoleData(MaxHole, d)
  \/ retrieveAllHoleData
  \/ validateHoleData
  \/ saveHolesToDatabaseThrows
  \/ saveHolesToDatabaseHole
  \/ saveHolesToDatabaseDone
  \/ markRoundComplete
  \/ generateInsights
  \/ cleanupLocalStorage
  \/ AdvanceAfterSave
  \/ RejectAfterSave
  \/ FinishComplete
  \/ \E posthog \in BOOLEAN : setPostHogInstance(posthog)

TelemetrySpec == Init /\ [][TelemetryNext]_vars

\* the steps of completeRoundSequential with every capture left out
SinklessNext ==
  \/ CallComplete
  \/ BeginIteration
  \/ SaveSettles
  \/ CallStep
  \/ \E d \in PlayedShots : saveCurrentHoleData(MaxHole, d)
  \/ retrieveAllHoleData
  \/ validateHoleData
  \/ saveHolesToDatabaseThrows
  \/ saveHolesToDatabaseHole
  \/ saveHolesToDatabaseDone
  \/ markRoundComplete
  \/ generateInsights
  \/ cleanupLocalStorage
  \/ ContinueLoop
  \/ Rethrow
  \/ ReturnSuccess

(* ------------------------------------------------------------------ *)
(* Calls of a function wrapped by withInsightsErrorBoundary             *)
(* ------------------------------------------------------------------ *)
\* what a call of a wrapped function leaves alone
boundaryFrame ==
  << completionVars, roundDeleted, posthogInstance, captured, tracker, rounds,
     play >>

\* the wrapped function is called: maxRetries = context.maxRetries || 2
CallWrapped(contextMaxRetries) ==
  /\ boundary.at = "idle"
  /\ boundary' = [NoCall EXCEPT
                    !.at = "attempt",
                    !.context = [maxRetries |-> contextMaxRetries],
                    !.maxRetries = IF contextMaxRetries = 0 THEN 2
                                   ELSE contextMaxRetries]
  /\ UNCHANGED boundaryFrame

\* the operation resolves within the 30 seconds: its result is returned
AttemptResolves ==
  /\ boundary.at = "attempt"
  /\ boundary' = [boundary EXCEPT !.at = "idle", !.calls = @ + 1,
                                  !.returned = "result"]
  /\ UNCHANGED boundaryFrame

\* the operation rejects with an error, or the timeout does with 'Operation
\* timeout': the catch block decides between another attempt and null
AttemptRejects(error) ==
  /\ boundary.at = "attempt"
  /\ LET attempt == boundary.attempt + 1
         retryConfig == RETRY_CONFIG(categorizeError(error))
     IN
     boundary' =
       IF attempt <= boundary.maxRetries /\ retryConfig.maxRetries > 0
         THEN [boundary EXCEPT
                 !.at = IF retryConfig.delayMs > 0 THEN "wait" ELSE "attempt",
                 !.attempt = attempt, !.calls = @ + 1, !.lastError = error]
         ELSE [boundary EXCEPT
                 !.at = "idle", !.attempt = attempt, !.calls = @ + 1,
                 !.lastError = error, !.returned = "null"]
  /\ UNCHANGED boundaryFrame

\* the delay before the next attempt is over
WaitEnds ==
  /\ boundary.at = "wait"
  /\ boundary' = [boundary EXCEPT !.at = "attempt"]
  /\ UNCHANGED boundaryFrame

RetryNext ==
  \/ \E contextMaxRetries \in ContextMaxRetries : CallWrapped(contextMaxRetries)
  \/ AttemptResolves
  \/ \E error \in Errors : AttemptRejects(error)
  \/ WaitEnds

RetrySpec == Init /\ [][RetryNext]_vars
(* ------------------------------------------------------------------ *)
(* Tracker screen: recording shots and moving between holes             *)
(* ------------------------------------------------------------------ *)
\* what the taps on the screen leave alone
playFrame ==
  << runVars, eventsLeft, roundDeleted, posthogInstance, captured, rounds,
     boundary >>

\* the screen renders: holeData[currentHole].shotCounts is read for the table
Renders == Operable /\ play.currentHole \in DOMAIN play.holeData

\* the shot table and the action button are shown
ContentShown ==
  /\ Renders
  /\ ~tracker.completionProgress.isCompleting
  /\ tracker.completionProgress.error = "null"
  /\ ~tracker.loading

\* [...shots].reverse()
Reverse(s) == [k \in 1..Len(s) |-> s[Len(s) + 1 - k]]

\* shot.type === type && shot.result === outcome
Matches(shot, type, result) == shot.type = type /\ shot.result = result

\* Array.prototype.findIndex with that test: the 0-based index of the first
\* match, or -1
FindIndex(s, type, result) ==
  IF \E k \in 1..Len(s) : Matches(s[k], type, result)
    THEN (CHOOSE k \in 1..Len(s) :
            /\ Matches(s[k], type, result)
            /\ \A j \in 1..(k - 1) : ~Matches(s[j], type, result)) - 1
    ELSE -1

\* shots.splice(actualIndex, 1), actualIndex 0-based
Splice(s, actualIndex) ==
  SubSeq(s, 1, actualIndex) \o SubSeq(s, actualIndex + 2, Len(s))

\* the updater of addShot, were the count left as it is
AddedShotUncounted(currentHoleInfo, type, result, timestamp) ==
  [currentHoleInfo EXCEPT
     !.shots = Append(@, [type |-> type, result |-> result,
                          timestamp |-> timestamp])]

\* the updater of addShot applied to a hole's data; the timestamp is the
\* reading of a clock that advances with every tap
AddedShot(currentHoleInfo, type, result, timestamp) ==
  [shots |-> Append(currentHoleInfo.shots,
                    [type |-> type, result |-> result, timestamp |-> timestamp]),
   shotCounts |-> [currentHoleInfo.shotCounts EXCEPT ![type][result] = @ + 1]]

\* the updater of removeShot, by the index the one in use would remove
RemovedShotFirst(currentHoleInfo, type, result) ==
  IF currentHoleInfo.shotCounts[type][result] <= 0
    THEN currentHoleInfo
    ELSE LET shotIndex == FindIndex(currentHoleInfo.shots, type, result)
         IN
         IF shotIndex # -1
           THEN [shots |-> Splice(currentHoleInfo.shots, shotIndex),
                 shotCounts |->
                   [currentHoleInfo.shotCounts EXCEPT ![type][result] = @ - 1]]
           ELSE currentHoleInfo

\* the updater of removeShot applied to a hole's data
RemovedShot(currentHoleInfo, type, result) ==
  IF currentHoleInfo.shotCounts[type][result] <= 0
    THEN currentHoleInfo
    ELSE LET shotIndex ==
               FindIndex(Reverse(currentHoleInfo.shots), type, result)
         IN
         IF shotIndex # -1
           THEN LET actualIndex == Len(currentHoleInfo.shots) - 1 - shotIndex
                IN
                [shots |-> Splice(currentHoleInfo.shots, actualIndex),
                 shotCounts |->
                   [currentHoleInfo.shotCounts EXCEPT ![type][result] = @ - 1]]
           ELSE currentHoleInfo

\* a cell of the shot table is tapped
addShot(type, result) ==
  /\ ContentShown
  /\ play.taps < MaxTaps
  /\ play' = [play EXCEPT
                !.taps = @ + 1,
                !.holeData[play.currentHole] =
                   AddedShot(@, type, result, play.taps + 1)]
  /\ UNCHANGED << storage, tracker, playFrame >>

\* the minus of a cell of the shot table is tapped
removeShot(type, result) ==
  /\ ContentShown
  /\ play' = [play EXCEPT
                !.holeData[play.currentHole] = RemovedShot(@, type, result)]
  /\ UNCHANGED << storage, tracker, playFrame >>

\* const currentHoleScore = holeData[currentHole]?.shots?.length || 0
currentHoleScore ==
  IF play.currentHole \in DOMAIN play.holeData
    THEN Len(play.holeData[play.currentHole].shots)
    ELSE 0

\* a handler reaches await AsyncStorage.getItem(`round_${round.id}_holes`) of
\* saveCurrentHoleToStorage, or the pipeline that of saveCurrentHoleData, with
\* the current hole of its closure
Saving(by) ==
  Append(play.saves,
         [by |-> by, at |-> "getItem", currentHole |-> play.currentHole,
          existingData |-> NoHoles])

\* handleNextHole below the last hole: the bound is checked, then the save
handleNextHoleSaves ==
  /\ Renders
  /\ play.taps < MaxTaps
  /\ play.currentHole < totalHoles
  /\ play' = [play EXCEPT !.taps = @ + 1, !.saves = Saving("handleNextHole")]
  /\ UNCHANGED << storage, tracker, playFrame >>

\* handlePreviousHole: the bound is checked, then the save
handlePreviousHole ==
  /\ Renders
  /\ play.taps < MaxTaps
  /\ play.currentHole > 1
  /\ play' = [play EXCEPT !.taps = @ + 1, !.saves = Saving("handlePreviousHole")]
  /\ UNCHANGED << storage, tracker, playFrame >>

\* the button "Complete Hole", shown below the last hole: setLoading(true),
\* then the save
completeHole ==
  /\ ContentShown
  /\ play.taps < MaxTaps
  /\ play.currentHole # totalHoles
  /\ play' = [play EXCEPT !.taps = @ + 1, !.saves = Saving("completeHole")]
  /\ tracker' = [tracker EXCEPT !.loading = TRUE]
  /\ UNCHANGED << storage, playFrame >>

\* the button "Complete Round", shown at the last hole: finishRound calls
\* completeRoundSequential(round.id, currentHole, holeData[currentHole]), whose
\* first step is saveCurrentHoleData
completeRound ==
  /\ ContentShown
  /\ play.taps < MaxTaps
  /\ play.currentHole = totalHoles
  /\ tracker.finishRound = "idle"
  /\ play' = [play EXCEPT !.taps = @ + 1,
                          !.saves = Saving("completeRoundSequential")]
  /\ tracker' = [Completing(tracker) EXCEPT !.finishRound = "running"]
  /\ UNCHANGED << storage, playFrame >>

\* getItem of a save settles: existingData[currentHole] = holeData[currentHole],
\* and setItem is issued with the collection so built. The shots array and
\* the counts of a hole are shared by every version of holeData, so the
\* record written is the hole's data as of now
getItemSettles(k) ==
  /\ k \in 1..Len(play.saves)
  /\ play.saves[k].at = "getItem"
  /\ play.saves[k].currentHole \in DOMAIN play.holeData
  /\ LET existingDataStr == GetItem(storage, "holes")
         existingData ==
           IF existingDataStr # <<>> THEN existingDataStr[1] ELSE NoHoles
         h == play.saves[k].currentHole
     IN
     play' = [play EXCEPT
                !.saves[k].at = "setItem",
                !.saves[k].existingData =
                   MergeHole(existingData, h, play.holeData[h])]
  /\ UNCHANGED << storage, tracker, playFrame >>

\* the saves in flight without the one that has ended
Without(k) == SubSeq(play.saves, 1, k - 1) \o SubSeq(play.saves, k + 1, Len(play.saves))

\* setItem of a save of the screen settles and its handler goes on:
\* setCurrentHole(prev => prev + 1) or (prev => prev - 1); completeHole moves
\* on if the hole of its closure is below the last one, then setLoading(false)
setItemSettles(k) ==
  /\ k \in 1..Len(play.saves)
  /\ play.saves[k].at = "setItem"
  /\ play.saves[k].by # "completeRoundSequential"
  /\ storage' = SetItem(storage, "holes", play.saves[k].existingData)
  /\ LET by == play.saves[k].by
         prev == play.currentHole
     IN
     /\ play' = [play EXCEPT
                   !.saves = Without(k),
                   !.currentHole =
                      CASE by = "handleNextHole" -> prev + 1
                        [] by = "handlePreviousHole" -> prev - 1
                        [] OTHER ->
                             IF play.saves[k].currentHole < totalHoles
                               THEN prev + 1 ELSE prev]
     /\ tracker' = IF by = "completeHole"
                     THEN [tracker EXCEPT !.loading = FALSE] ELSE tracker
  /\ UNCHANGED playFrame

\* setItem of saveCurrentHoleData settles: the pipeline goes on with the steps
\* that leave the hole collection alone, up to cleanup
saveCurrentHoleSettles(k) ==
  /\ k \in 1..Len(play.saves)
  /\ play.saves[k].at = "setItem"
  /\ play.saves[k].by = "completeRoundSequential"
  /\ storage' = SetItem(storage, "holes", play.saves[k].existingData)
  /\ play' = [play EXCEPT !.saves[k].at = "cleanup"]
  /\ UNCHANGED << tracker, playFrame >>

\* cleanupLocalStorage removes the hole collection, "currentRound" and the
\* checkpoint; the pipeline returns and finishRound leaves for the scorecard
cleanupSettles(k) ==
  /\ k \in 1..Len(play.saves)
  /\ play.saves[k].at = "cleanup"
  /\ storage' = RemoveItem(RemoveItem(RemoveItem(storage, "holes"),
                                      "currentRound"), "checkpoint")
  /\ play' = [play EXCEPT !.saves = Without(k)]
  /\ tracker' = [tracker EXCEPT
                   !.completionProgress = InitialTracker.completionProgress,
                   !.navigation = IF @ = "TrackerScreen" THEN "ScorecardScreen" ELSE @,
                   !.finishRound = "idle"]
  /\ UNCHANGED playFrame

\* saves in flight at once
SaveIndices == 1..MaxTaps

PlayNext ==
  \/ \E type \in TableTypes, result \in Outcomes : addShot(type, result)
  \/ \E type \in TableTypes, result \in Outcomes : removeShot(type, result)
  \/ handleNextHoleSaves
  \/ handlePreviousHole
  \/ completeHole
  \/ completeRound
  \/ \E k \in SaveIndices : getItemSettles(k)
  \/ \E k \in SaveIndices : setItemSettles(k)
  \/ \E k \in SaveIndices : saveCurrentHoleSettles(k)
  \/ \E k \in SaveIndices : cleanupSettles(k)

PlaySpec == Init /\ [][PlayNext]_vars

(* ------------------------------------------------------------------ *)
(* Properties                                                           *)
(* ------------------------------------------------------------------ *)
StoredCheckpoint == GetItem(storage, "checkpoint")

\* the status the stored checkpoint records for a step
StoredStatus(step) ==
  IF StoredCheckpoint = <<>> THEN "none"
  ELSE StatusOf(StoredCheckpoint[1].stepProgress, step)

\* the status the checkpoint this run resumed from records for a step
ResumedStatus(step) ==
  IF resumeInfo.checkpoint = <<>> THEN "none"
  ELSE StatusOf(resumeInfo.checkpoint[1].stepProgress, step)

\* the status the checkpoint this call loaded records for a step
LoadedStatus(step) ==
  IF loaded = <<>> THEN "none" ELSE StatusOf(loaded[1].stepProgress, step)

Returned(kind) == pc = "idle" /\ outcome.kind = kind

\* C1: within a run at most one step is executing, it is the step of the loop
\* index, and every step from the start index up to it has finished successfully
\* in this run or was skipped as Completed in the checkpoint the run resumed from.
C1_StepsInOrder ==
  /\ Cardinality(running) <= 1
  /\ \A step \in running :
       /\ pc = "exec"
       /\ i \in startIndex..Len(stepOrder)
       /\ step = CurrentStep
       /\ \A k \in startIndex..(i - 1) :
            \/ stepOrder[k] \in results.done
            \/ ResumedStatus(stepOrder[k]) = "completed"

C1_Witness ==
  /\ startIndex = IndexOf("markComplete")
  /\ running = {"cleanup"}
  /\ results.done = {"markComplete", "generateInsights"}

C3_ResumedStepReadsStoredHoles ==
  (pc = "saveFailed" /\ i = startIndex
     /\ CurrentStep \in {"validateData", "saveToDatabase"})
    => thrown # "TypeError"

\* C4: when the failures of the stores stop and the caller calls complete again
\* after every failure, some call of complete returns success.
C4_EventuallySucceeds == <>(outcome.kind = "success")

\* C5: a step that the checkpoint loaded by a call records as Completed is not
\* executed by that call.
C5_CompletedNotExecutedAgain ==
  \A step \in running : LoadedStatus(step) # "completed"

\* C6: when complete has returned success, the remote rows of the round are
\* exactly the holes of the local hole collection with a non-empty shots sequence,
\* each with total_score the length of that hole's shots.
C6_RowsAreLocalHoles ==
  Returned("success")
    => /\ DOMAIN rows = ValidHoles(lastHoles)
       /\ \A n \in DOMAIN rows : rows[n].total_score = Len(lastHoles[n])

\* C7 as stated: when complete has rejected, the stored checkpoint records the
\* failed step as Failed with lastFailure naming it, and canRetry is true.
C7_FailurePersisted ==
  Returned("failure")
    => /\ outcome.canRetry
       /\ StoredStatus(outcome.step) = "failed"
       /\ StoredCheckpoint[1].lastFailure = outcome.step

\* C7 amended: when a step fails, the save of a checkpoint with that step Failed
\* and lastFailure naming it is issued and awaited, and the stored checkpoint is
\* that one whenever the storage write did not fail; no later step is executed in
\* the run; complete rejects with the failed step and canRetry true.
C7_FailureHandled ==
  /\ pc = "saveFailed"
       => /\ running = {}
          /\ StatusOf(currentStepProgress, CurrentStep) = "failed"
          /\ \A k \in (i + 1)..Len(stepOrder) :
               /\ stepOrder[k] \notin results.done
               /\ ~HasEntry(currentStepProgress, stepOrder[k])
          /\ (inflight = <<>> /\ lastSaveOk)
               => /\ StoredStatus(CurrentStep) = "failed"
                  /\ StoredCheckpoint[1].lastFailure = CurrentStep
  /\ Returned("failure")
       => /\ outcome.canRetry
          /\ outcome.step \in StepNames
          /\ outcome.persisted
               => /\ StoredStatus(outcome.step) = "failed"
                  /\ StoredCheckpoint[1].lastFailure = outcome.step

C7_Witness ==
  /\ Returned("failure")
  /\ outcome.step = "markComplete"
  /\ outcome.persisted
  /\ StoredStatus("markComplete") = "failed"

\* the stored checkpoint shows the step Pending and every earlier step Completed
StoredShowsPending(step) ==
  /\ StoredStatus(step) = "pending"
  /\ \A k \in 1..(IndexOf(step) - 1) : StoredStatus(stepOrder[k]) = "completed"

C9_SaveAwaited ==
  /\ Len(inflight) <= 1
  /\ (running # {} \/ pc \in {"exec", "loop", "idle"}) => inflight = <<>>

C9_Witness ==
  /\ running = {"retrieveAllHoles"}
  /\ StoredStatus("saveCurrentHole") = "completed"
  /\ StoredStatus("retrieveAllHoles") = "pending"

LoadedWith(status) ==
  IF loaded = <<>> THEN {}
  ELSE { k \in 1..Len(stepOrder) :
           \E e \in 1..Len(loaded[1].stepProgress) :
             /\ loaded[1].stepProgress[e].step = stepOrder[k]
             /\ loaded[1].stepProgress[e].status = status }

\* C11: when the checkpoint a call loaded records a step as Failed, the planner
\* returns the first Failed step in pipeline order as resumeFromStep, together
\* with that checkpoint and its lastFailure as preserveError.
C11_ResumesAtFirstFailed ==
  (pc # "idle" /\ loaded # <<>>)
    => LET failed == LoadedWith("failed")
           first == CHOOSE k \in failed : \A m \in failed : k <= m
       IN failed # {}
            => /\ resumeInfo.resumeFromStep = stepOrder[first]
               /\ resumeInfo.checkpoint = loaded
               /\ resumeInfo.preserveError = loaded[1].lastFailure
               /\ startIndex = first

C11_Witness ==
  /\ pc = "loop"
  /\ LoadedStatus("markComplete") = "failed"
  /\ resumeInfo.resumeFromStep = "markComplete"
  /\ resumeInfo.preserveError = "markComplete"

\* C12: when the loaded checkpoint records no Failed step and some Completed
\* step, the planner returns the step that follows the last Completed step in
\* the step order, and start-from-beginning when that step is cleanup.
C12_ResumesAfterLastCompleted ==
  (pc # "idle" /\ loaded # <<>>)
    => LET completed == LoadedWith("completed")
           last == CHOOSE k \in completed : \A m \in completed : m <= k
       IN (completed # {} /\ LoadedWith("failed") = {})
            => IF last = Len(stepOrder)
                 THEN /\ resumeInfo.startFromBeginning
                      /\ resumeInfo.resumeFromStep = "none"
                      /\ startIndex = 1
                 ELSE /\ resumeInfo.resumeFromStep = stepOrder[last + 1]
                      /\ resumeInfo.checkpoint = loaded
                      /\ startIndex = last + 1

C12_Witness ==
  /\ pc = "exec"
  /\ LoadedStatus("markComplete") = "completed"
  /\ LoadedStatus("generateInsights") = "pending"
  /\ resumeInfo.resumeFromStep = "generateInsights"
  /\ running = {"generateInsights"}

\* C13: when a call finds no checkpoint, or a checkpoint that records no step
\* as Completed or Failed, the planner returns start-from-beginning and the run
\* executes from saveCurrentHole with an empty step-progress map.
C13_StartsFromBeginning ==
  (pc # "idle" /\ (loaded = <<>> \/ LoadedWith("completed") \cup LoadedWith("failed") = {}))
    => /\ resumeInfo.startFromBeginning
       /\ resumeInfo.resumeFromStep = "none"
       /\ startIndex = 1
       /\ (pc = "loop" /\ i = 1) => currentStepProgress = <<>>
       /\ (pc = "exec" /\ results.done = {}) => CurrentStep = "saveCurrentHole"
       /\ \A k \in 1..Len(currentStepProgress) :
            IndexOf(currentStepProgress[k].step) = k

C13_Witness ==
  /\ loaded # <<>>
  /\ LoadedStatus("saveCurrentHole") = "pending"
  /\ running = {"saveCurrentHole"}
  /\ Len(currentStepProgress) = 1

\* the step in which a call of complete loads the checkpoint and plans
LoadStep == pc = "idle" /\ pc' = "loop"

\* no storage operation of the load fails in this step
LoadUnfailed == eventsLeft' = eventsLeft - Recall

\* the step in which a checkpoint save settles
SaveStep ==
  inflight # <<>> /\ inflight' = Tail(inflight) /\ outcome'.kind # "crashed"

\* what a load does with the stored checkpoint, by the time of the load
LoadByExpiry ==
  IF now > StoredCheckpoint[1].expiresAt
    THEN /\ loaded' = <<>>
         /\ StoredCheckpoint' = <<>>
         /\ resumeInfo'.startFromBeginning
         /\ startIndex' = 1
    ELSE /\ loaded' = StoredCheckpoint
         /\ storage' = storage

\* C14 as stated: a load later than the stored checkpoint's expiresAt returns
\* null, deletes the record and makes the planner start from the beginning; a
\* load not later than expiresAt returns the checkpoint and leaves the store.
C14_LoadByExpiry ==
  [][(LoadStep /\ StoredCheckpoint # <<>>) => LoadByExpiry]_vars

\* C14 amended: the same when no storage operation of the load fails; when the
\* read or the removal fails, the load returns null whatever the time, the
\* record stays in the store and the planner starts from the beginning.
C14_LoadByExpiryUnlessStorageFails ==
  [][(LoadStep /\ StoredCheckpoint # <<>>)
       => IF LoadUnfailed
            THEN LoadByExpiry
            ELSE /\ loaded' = <<>>
                 /\ storage' = storage
                 /\ resumeInfo'.startFromBeginning]_vars

C14_Witness ==
  /\ pc = "loop"
  /\ previous = "saveToDatabase"
  /\ now > CHECKPOINT_EXPIRY_HOURS
  /\ loaded = <<>>
  /\ StoredCheckpoint = <<>>
  /\ startIndex = 1

\* C15 as stated: every checkpoint save leaves in the store a checkpoint whose
\* expiresAt is the time of that save plus 24 hours.
C15_ExpiryResetBySave ==
  [][SaveStep
       => /\ StoredCheckpoint' # <<>>
          /\ StoredCheckpoint'[1].expiresAt = now + CHECKPOINT_EXPIRY_HOURS]_vars

\* C15 amended: every checkpoint save whose storage write succeeds leaves in the
\* store the checkpoint it built, with expiresAt the time of that save plus 24
\* hours, whatever the expiresAt of the checkpoint it replaces; a load whose
\* storage operations succeed returns the stored checkpoint exactly when no more
\* than 24 hours have passed since that save.
C15_ExpiryResetBySavedCheckpoint ==
  /\ [][(SaveStep /\ lastSaveOk')
          => /\ StoredCheckpoint' = << Head(inflight) >>
             /\ StoredCheckpoint'[1].expiresAt = now + CHECKPOINT_EXPIRY_HOURS]_vars
  /\ [][(LoadStep /\ StoredCheckpoint # <<>> /\ LoadUnfailed)
          => (loaded' = StoredCheckpoint
                <=> now - (StoredCheckpoint[1].expiresAt - CHECKPOINT_EXPIRY_HOURS)
                      <= CHECKPOINT_EXPIRY_HOURS)]_vars

C15_Witness ==
  /\ pc # "idle"
  /\ now = CHECKPOINT_EXPIRY_HOURS
  /\ loaded # <<>>
  /\ loaded[1].expiresAt = CHECKPOINT_EXPIRY_HOURS
  /\ StoredCheckpoint # <<>>
  /\ StoredCheckpoint[1].expiresAt = 2 * CHECKPOINT_EXPIRY_HOURS

\* the process dies in this step
CrashStep == pc # "idle" /\ outcome'.kind = "crashed"

\* the analysis request of the run settles in this step
InsightsSettleStep ==
  insightsRequest = "pending" /\ insightsRequest' \in {"ok", "error", "rejected"}

\* C16: a checkpoint save that settles, with or without a failure of its storage
\* write, changes nothing of the run but the store's checkpoint key; after it the
\* run goes on as after a successful save: the step is invoked after its Pending
\* save, the loop advances after a Completed save, and complete rejects with the
\* step's own error after a Failed save.
C16_SaveFailureSwallowed ==
  /\ [][SaveStep
          => /\ UNCHANGED << pc, i, startIndex, currentStepProgress, results,
                             running, thrown, outcome, remoteVars, lastHoles >>
             /\ GetItem(storage', "holes") = GetItem(storage, "holes")
             /\ GetItem(storage', "currentRound") = GetItem(storage, "currentRound")]_vars
  /\ [][(pc = "savePending" /\ inflight = <<>>)
          => \/ pc' = "exec" /\ running' = {CurrentStep}
             \/ InsightsSettleStep /\ pc' = pc
             \/ CrashStep]_vars
  /\ [][(pc = "saveCompleted" /\ inflight = <<>>)
          => \/ pc' = "loop" /\ i' = i + 1
             \/ InsightsSettleStep /\ pc' = pc
             \/ CrashStep]_vars
  /\ [][(pc = "saveFailed" /\ inflight = <<>>)
          => \/ /\ outcome'.kind = "failure"
                /\ outcome'.step = CurrentStep
                /\ outcome'.error = thrown
             \/ InsightsSettleStep /\ pc' = pc
             \/ CrashStep]_vars

C16_Witness ==
  /\ running = {"markComplete"}
  /\ ~lastSaveOk
  /\ StoredStatus("markComplete") # "pending"

\* the stored hole collection exists and none of its holes has a shot
NoPlayedHoleStored ==
  /\ GetItem(storage, "holes") # <<>>
  /\ \A n \in DOMAIN GetItem(storage, "holes")[1] :
       Len(GetItem(storage, "holes")[1][n]) = 0

\* C17: when validateData executes and every hole of the stored hole collection
\* has an empty shots sequence, the step fails, complete rejects with step
\* validateData, and the run has made no hole upsert and no round update.
C17_NoValidHolesRejected ==
  /\ [][(Executing("validateData") /\ NoPlayedHoleStored)
          => \/ /\ pc' = "saveFailed"
                /\ StatusOf(currentStepProgress', "validateData") = "failed"
                /\ UNCHANGED remoteVars
             \/ CrashStep]_vars
  /\ [][(pc = "saveFailed" /\ CurrentStep = "validateData")
          => /\ UNCHANGED remoteVars
             /\ results.done \cap {"saveToDatabase", "markComplete"} = {}
             /\ \/ SaveStep
                \/ CrashStep
                \/ outcome'.kind = "failure" /\ outcome'.step = "validateData"]_vars

C17_Witness ==
  /\ Returned("failure")
  /\ outcome.step = "validateData"
  /\ outcome.error = "No valid holes found in data"
  /\ NoPlayedHoleStored
  /\ rows = NoHoles
  /\ ~round.is_complete

\* C18: the generateInsights step ends Completed whether or not issuing the
\* request throws, complete never fails at that step, the request settling with
\* a result, an error result or a rejection changes nothing of the run, and the
\* cleanup step is invoked after it whatever the state of the request.
C18_InsightsNeverBlock ==
  /\ [][Executing("generateInsights")
          => \/ /\ pc' = "saveCompleted"
                /\ StatusOf(currentStepProgress', "generateInsights") = "completed"
                /\ "generateInsights" \in results'.done
             \/ CrashStep]_vars
  /\ [][InsightsSettleStep
          => UNCHANGED << storage, remoteVars, pc, i, currentStepProgress, results,
                          running, inflight, thrown, outcome >>]_vars
  /\ [](pc = "saveFailed" => CurrentStep # "generateInsights")
  /\ [](Returned("failure") => outcome.step # "generateInsights")
  /\ []((pc = "savePending" /\ CurrentStep = "cleanup" /\ inflight = <<>>)
          => ENABLED InvokeStep)

C18_Witness ==
  /\ running = {"cleanup"}
  /\ "generateInsights" \in results.done
  /\ insightsTriggers = "none"
  /\ insightsRequest = "none"

RECURSIVE TotalUpTo(_, _)
\* the total_score of the rows of holes 1..n of a table, added hole by hole
TotalUpTo(table, n) ==
  IF n = 0 THEN 0
  ELSE (IF n \in DOMAIN table THEN table[n].total_score ELSE 0) + TotalUpTo(table, n - 1)

\* hole rows with the totals 4, 5, 3
RowsOfTwelve == [n \in 1..3 |-> [total_score |-> << 4, 5, 3 >>[n]]]

\* eighteen hole rows whose totals sum to 85
RowsOfEightyFive == [n \in 1..18 |-> [total_score |-> IF n <= 13 THEN 5 ELSE 4]]

\* the step in which markComplete resolves
MarkCompleteStep == Executing("markComplete") /\ pc' = "saveCompleted"

\* C19: when markComplete resolves, the round record holds is_complete true,
\* gross_shots the sum of total_score over the remote hole rows of the round, and
\* score that sum less the course par; with par 72, rows summing to 85 give 85 and
\* 13, and rows with totals 4, 5, 3 give 12 shots.
C19_ScoreComputation ==
  /\ [][MarkCompleteStep
          => /\ round'.is_complete
             /\ round'.gross_shots = TotalUpTo(rows, MaxHole)
             /\ round'.score = TotalUpTo(rows, MaxHole) - 72
             /\ rows' = rows]_vars
  /\ [](markCompleteUpdates = "none"
          => /\ CompletedRound(RowsOfEightyFive).is_complete
             /\ CompletedRound(RowsOfEightyFive).gross_shots = 85
             /\ CompletedRound(RowsOfEightyFive).score = 13
             /\ CompletedRound(RowsOfTwelve).gross_shots = 12
             /\ CompletedRound(RowsOfTwelve).score = 12 - 72)
  /\ [](round.is_complete => round.score = round.gross_shots - 72)

C19_Witness ==
  /\ Returned("success")
  /\ round.is_complete
  /\ DOMAIN rows = HoleNums
  /\ round.gross_shots = MaxHole * MaxShots
  /\ round.score = MaxHole * MaxShots - 72

\* the validated subset produced by validateData in this run
ValidatedSubset == results.validHoles[1]

\* the step in which saveToDatabase upserts a hole row
UpsertStep == Executing("saveToDatabase") /\ rows' # rows

\* C20: saveToDatabase goes through the holes in ascending order; the hole it
\* upserts is the one its loop is at, it is in the validated subset, its row is
\* keyed by the hole number and holds the hole's record with total_score the
\* length of its shots, and no other row changes; a hole outside the validated
\* subset is passed over without a write; when the step succeeds, every hole of
\* the validated subset has its row.
C20_SavesValidatedHoles ==
  /\ [][Executing("saveToDatabase")
          => \/ holeNum' = holeNum + 1
             \/ holeNum' = 0 /\ pc' # "exec"]_vars
  /\ [][UpsertStep
          => /\ holeNum \in ValidatedSubset
             /\ DOMAIN rows' = DOMAIN rows \cup {holeNum}
             /\ rows'[holeNum].hole_data = results.data[1][holeNum]
             /\ rows'[holeNum].total_score = Len(results.data[1][holeNum])
             /\ \A n \in DOMAIN rows : n # holeNum => rows'[n] = rows[n]]_vars
  /\ [][(Executing("saveToDatabase") /\ results.validHoles # <<>>
           /\ holeNum \notin ValidatedSubset)
          => rows' = rows]_vars
  /\ [][(Executing("saveToDatabase") /\ pc' = "saveCompleted")
          => \A n \in ValidatedSubset :
               /\ n \in DOMAIN rows
               /\ rows[n].total_score = Len(results.data[1][n])]_vars
  /\ [](pc # "idle" /\ results.validHoles # <<>>
          => ValidatedSubset = { n \in 1..MaxHole :
                                   /\ n \in DOMAIN results.data[1]
                                   /\ results.data[1][n] # <<>> })

C20_Witness ==
  /\ pc = "saveCompleted"
  /\ CurrentStep = "saveToDatabase"
  /\ DOMAIN results.data[1] = {1, 2}
  /\ ValidatedSubset = {2}
  /\ DOMAIN rows = {2}
  /\ rows[2].total_score = 1

\* ---------------------------------------------------------------------------
\* C21

\* the step in which saveToDatabase presents a played hole to the remote store
PresentStep ==
  /\ Executing("saveToDatabase")
  /\ results.validHoles # <<>>
  /\ holeNum \in ValidatedSubset
  /\ holeNum' = holeNum + 1

\* C21: in a call of complete made after a call that fully succeeded, a hole
\* presented to the remote store leaves one row per hole number: the rows of
\* the other holes are unchanged, no row is added for a hole that has one, and
\* when the hole's record is the one its row holds, the table is unchanged.
C21_SecondCallIdempotent ==
  [][(PresentStep /\ previous = "success")
       => /\ DOMAIN rows' = DOMAIN rows \cup {holeNum}
          /\ \A n \in DOMAIN rows : n # holeNum => rows'[n] = rows[n]
          /\ (holeNum \in DOMAIN rows
                /\ rows[holeNum].hole_data = results.data[1][holeNum])
               => rows' = rows]_vars

C21_Witness ==
  /\ previous = "success"
  /\ Executing("saveToDatabase")
  /\ results.validHoles # <<>>
  /\ holeNum = 2
  /\ 1 \in ValidatedSubset
  /\ 1 \in DOMAIN rows
  /\ rows[1].hole_data = results.data[1][1]
  /\ round.is_complete

\* ---------------------------------------------------------------------------
\* C22

\* the steps a progress map marks Failed
FailedSteps(sp) == { step \in StepNames : StatusOf(sp, step) = "failed" }

\* the step in which a call of complete ends while the process lives
SettleStep == pc # "idle" /\ pc' = "idle" /\ ~CrashStep

\* the step in which complete rejects
RejectStep == pc = "saveFailed" /\ SettleStep

\* C22: a call of complete ends, while the process lives, in a success or in a
\* rejection that names one of the seven steps; an exception of a step, the
\* TypeError raised while the input of saveToDatabase is read included, takes
\* the run to the rejection with the loop still at that step; the rejection names
\* the step the loop is at, that step is the only one marked Failed in the
\* progress map the rejection carries as its checkpoint, and in the stored
\* checkpoint when the save of that map reached storage.
C22_RejectionTagged ==
  /\ [][SettleStep
          => \/ outcome'.kind = "success" /\ pc = "loop"
             \/ outcome'.kind = "failure" /\ pc = "saveFailed"]_vars
  /\ [][(pc = "exec" /\ pc' # "exec" /\ ~CrashStep)
          => \/ pc' = "saveCompleted" /\ thrown' = "none" /\ i' = i
             \/ pc' = "saveFailed" /\ thrown' # "none" /\ i' = i]_vars
  /\ [][RejectStep
          => /\ outcome'.step = CurrentStep
             /\ outcome'.step \in StepNames
             /\ outcome'.error = thrown
             /\ FailedSteps(currentStepProgress) = {outcome'.step}
             /\ outcome'.persisted
                  => FailedSteps(StoredCheckpoint[1].stepProgress)
                       = {outcome'.step}]_vars

C22_Witness ==
  /\ Returned("failure")
  /\ outcome.step = "saveToDatabase"
  /\ outcome.error = "TypeError"
  /\ outcome.persisted
  /\ FailedSteps(StoredCheckpoint[1].stepProgress) = {"saveToDatabase"}

\* ---------------------------------------------------------------------------
\* C23

\* the Exit handler is at deleteAbandonedRound or at one of its two removals
Abandoning ==
  tracker.exit \in {"deleteAbandonedRound", "removeHoles", "removeCurrentRound"}

\* C23: while isCompleting is true and a run of complete is in progress, no Exit
\* handler is at deleteAbandonedRound or at the removal of the hole collection
\* or of currentRound, and no step of such a handler is taken.
C23_AbandonmentRefused ==
  /\ [](tracker.completionProgress.isCompleting /\ pc # "idle" => ~Abandoning)
  /\ [][(tracker.completionProgress.isCompleting /\ pc # "idle")
          => /\ roundDeleted' = roundDeleted
             /\ tracker'.exit = tracker.exit]_vars

\* ---------------------------------------------------------------------------
\* C24

\* the step in which finishRound ends, after the call of complete has settled
FinishRoundEnds ==
  /\ tracker.finishRound = "running"
  /\ tracker'.finishRound = "idle"
  /\ pc = "idle"
  /\ eventsLeft' = eventsLeft

\* C24: when finishRound ends after the run has ended, isCompleting is false,
\* and after a rejection the screen records the failing step, the error and
\* canRetry = true, so that it offers the retry.
C24_ErrorStateReached ==
  [][FinishRoundEnds
       => /\ ~tracker'.completionProgress.isCompleting
          /\ outcome.kind = "failure"
               => /\ tracker'.completionProgress.currentStep = outcome.step
                  /\ tracker'.completionProgress.error = outcome.error
                  /\ tracker'.completionProgress.canRetry]_vars

\* ---------------------------------------------------------------------------
\* C25

\* C25: once an Exit handler has run to its end, local storage holds no
\* completion checkpoint of the round.
C25_NoCheckpointAfterAbandonment ==
  tracker.abandoned => StoredCheckpoint = <<>>

\* ---------------------------------------------------------------------------
\* C26

\* the user has confirmed Exit and the handler has not ended
ExitPending == tracker.exit # "none"

\* the handler has navigated away and reset the loading flag
ExitDone == tracker.navigation = "left" /\ ~tracker.loading /\ tracker.abandoned

DeleteSettles ==
  tracker.exit = "deleteAbandonedRound" /\ tracker'.exit = "removeHoles"

\* C27: the round record is deleted only by deleteAbandonedRound and only while
\* it is not complete, so a round that markComplete has completed is never
\* deleted and a deleted round is never complete, however the steps of a run and
\* of the Exit handler interleave; deleteAbandonedRound settles by returning
\* true or false, false when its request failed, and the handler goes on to the
\* removal of the hole collection in both cases.
C27_DeletesOnlyIncomplete ==
  /\ [](roundDeleted => ~round.is_complete)
  /\ [][(~roundDeleted /\ roundDeleted')
          => /\ DeleteSettles
             /\ ~round.is_complete
             /\ tracker'.deleteReturned = "true"]_vars
  /\ [][(round.is_complete /\ DeleteSettles) => ~roundDeleted']_vars
  /\ [][(tracker.exit = "deleteAbandonedRound" /\ tracker'.exit # tracker.exit
           /\ (tracker'.exit # "none" \/ tracker'.abandoned))
          => /\ DeleteSettles
             /\ tracker'.deleteReturned \in {"true", "false"}
             /\ (eventsLeft' < eventsLeft)
                  <=> (tracker'.deleteReturned = "false")
             /\ tracker'.deleteReturned = "false" => roundDeleted' = roundDeleted]_vars

\* deleteAbandonedRound has returned true for a completed round, which is kept,
\* beside a run that has passed markComplete
C27_Witness ==
  /\ round.is_complete
  /\ ~roundDeleted
  /\ tracker.exit = "removeHoles"
  /\ tracker.deleteReturned = "true"
  /\ pc # "idle"
  /\ "markComplete" \in results.done

\* ---------------------------------------------------------------------------
\* C28

\* the keys under which the checkpoint and the hole collection of a round are kept
KeysOf(roundId) == { CheckpointKey(roundId), HolesKey(roundId) }

\* the step is a storage operation of the run of roundId
OpOf(roundId) ==
  /\ rounds.run[roundId].at > 0
  /\ rounds'.run[roundId].at # rounds.run[roundId].at

\* C28: a storage operation of the run of one round, taken at any point of the
\* run of another round, is on the checkpoint or the hole collection of its own
\* round or on the key currentRound, which no run reads; it leaves what is
\* stored under the keys of the other round as it was; and a checkpoint or a
\* hole collection written by a run is stored under the keys of its round only.
C28_RoundsDoNotInterfere ==
  /\ [][\A roundId \in RoundIds :
          OpOf(roundId)
            => /\ rounds'.last.round = roundId
               /\ rounds'.last.key \in KeysOf(roundId) \cup {CurrentRoundKey}
               /\ rounds'.last.key = CurrentRoundKey => rounds'.last.op = "removeItem"
               /\ \A other \in RoundIds \ {roundId} :
                    /\ rounds'.last.key \notin KeysOf(other)
                    /\ \A key \in KeysOf(other) :
                         rounds'.store[key] = rounds.store[key]
                    /\ rounds'.run[other] = rounds.run[other]]_vars
  /\ [](\A roundId \in RoundIds :
          \A key \in KeysOf(roundId) :
            rounds.store[key] # << >>
              => rounds.store[key][1].by \in {roundId, "TrackerScreen"})

\* the run of A has written its failure checkpoint and the run of B its hole
\* collection, both runs being in progress
C28_Witness ==
  /\ rounds.run["A"].at > 0
  /\ rounds.run["B"].at > 0
  /\ rounds.last.round = "A"
  /\ rounds.last.op = "setItem"
  /\ rounds.store[CheckpointKey("A")] = << [by |-> "A"] >>
  /\ rounds.store[HolesKey("B")] = << [by |-> "B"] >>
  /\ rounds.store[HolesKey("A")] = << [by |-> "TrackerScreen"] >>

\* ---------------------------------------------------------------------------
\* C29

\* C29: whether a sink is set or not, and whenever it is set or removed, every
\* step of a run is a step of the pipeline with the captures left out: the same
\* steps in the same order, the same checkpoints, the same result or rejection
\* for the same outcomes of the stores; every step the pipeline with the
\* captures left out can take, the run can take with a sink and without one; and
\* nothing is captured while no sink is set.
C29_SinkOptional ==
  /\ [][SinklessNext]_completionVars
  /\ [](/\ (pc = "idle" /\ ENABLED CallComplete) => ENABLED StartComplete
        /\ (pc = "savePending" /\ ENABLED CallStep) => ENABLED InvokeStep
        /\ (pc = "saveCompleted" /\ ENABLED ContinueLoop) => ENABLED AdvanceAfterSave
        /\ (pc = "saveFailed" /\ ENABLED Rethrow) => ENABLED RejectAfterSave
        /\ (pc = "loop" /\ ENABLED ReturnSuccess) => ENABLED FinishComplete)
  /\ [][~posthogInstance => captured' = captured]_vars

\* a run has succeeded without a sink after an earlier call, made with a sink,
\* was rejected
C29_Witness ==
  /\ Returned("success")
  /\ ~posthogInstance
  /\ previous \in StepNames
  /\ captured = << "round_completion_step_failed",
                   "round_completion_sequence_abandoned" >>

\* ---------------------------------------------------------------------------
\* C30

\* the step in which an attempt of the wrapped operation fails
AttemptFails == boundary'.attempt = boundary.attempt + 1

ShotsOf(p, h) == p.holeData[h].shots

\* s without its k-th shot
Dropped(s, k) == SubSeq(s, 1, k - 1) \o SubSeq(s, k + 1, Len(s))

\* the step removes from s the latest shot of that type and result, if any
DropsLatest(s, t, type, result) ==
  IF \E k \in 1..Len(s) : Matches(s[k], type, result)
    THEN \E k \in 1..Len(s) :
           /\ Matches(s[k], type, result)
           /\ \A j \in (k + 1)..Len(s) : ~Matches(s[j], type, result)
           /\ t = Dropped(s, k)
    ELSE t = s

\* C31: a step of the screen leaves the shots of every hole as they are, appends
\* one shot, or drops one shot and keeps the others in their order; and
\* removeShot(type, outcome) drops from the current hole the latest shot
\* whose type and outcome both match, leaves the other holes alone, and
\* leaves the hole's data unchanged when no shot matches.
C31_RemovesMostRecentMatch ==
  /\ [][\A h \in DOMAIN play.holeData :
          \/ ShotsOf(play', h) = ShotsOf(play, h)
          \/ \E shot \in [type : TableTypes, result : Outcomes,
                          timestamp : 1..MaxTaps] :
               ShotsOf(play', h) = Append(ShotsOf(play, h), shot)
          \/ \E k \in 1..Len(ShotsOf(play, h)) :
               ShotsOf(play', h) = Dropped(ShotsOf(play, h), k)]_vars
  /\ [][\A type \in TableTypes, result \in Outcomes :
          removeShot(type, result)
            => /\ DropsLatest(ShotsOf(play, play.currentHole),
                              ShotsOf(play', play.currentHole), type, result)
               /\ \A h \in DOMAIN play.holeData \ {play.currentHole} :
                    play'.holeData[h] = play.holeData[h]
               /\ (\A k \in 1..Len(ShotsOf(play, play.currentHole)) :
                     ~Matches(ShotsOf(play, play.currentHole)[k], type, result))
                    => play'.holeData = play.holeData]_vars

\* three shots have been recorded at the first hole and the second of them
\* has been removed: the first and the third are left, in that order
C31_Witness ==
  /\ play.taps = 3
  /\ play.currentHole = 1
  /\ play.saves = <<>>
  /\ GetItem(storage, "holes") = <<>>
  /\ Len(ShotsOf(play, 1)) = 2
  /\ ShotsOf(play, 1)[1].timestamp = 1
  /\ ShotsOf(play, 1)[2].timestamp = 3
  /\ Matches(ShotsOf(play, 1)[1], "Tee Shot", "On Target")
  /\ Matches(ShotsOf(play, 1)[2], "Putts", "On Target")
  /\ play.holeData[1].shotCounts["Tee Shot"]["On Target"] = 1

\* ---------------------------------------------------------------------------
\* C39

\* the shots of a hole with that type and result
Matching(h, type, result) ==
  { k \in 1..Len(ShotsOf(play, h)) : Matches(ShotsOf(play, h)[k], type, result) }

\* C39: in every hole each count is the number of the hole's shots of that type
\* and outcome, and is not negative; the score of the current hole is the
\* length of its shots; and removeShot on a type and outcome whose count is 0
\* leaves the state of the screen unchanged.
C39_CountsMatchShots ==
  /\ [](\A h \in DOMAIN play.holeData :
          \A type \in TableTypes, result \in Outcomes :
            /\ play.holeData[h].shotCounts[type][result]
                 = Cardinality(Matching(h, type, result))
            /\ play.holeData[h].shotCounts[type][result] >= 0)
  /\ [](play.currentHole \in DOMAIN play.holeData
          => currentHoleScore = Len(ShotsOf(play, play.currentHole)))
  /\ [][\A type \in TableTypes, result \in Outcomes :
          (/\ removeShot(type, result)
           /\ play.holeData[play.currentHole].shotCounts[type][result] = 0)
            => play' = play]_vars

\* three shots of one kind recorded at the first hole and two of them removed
C39_Witness ==
  /\ play.taps = 3
  /\ play.currentHole = 1
  /\ play.saves = <<>>
  /\ GetItem(storage, "holes") = <<>>
  /\ Len(ShotsOf(play, 1)) = 1
  /\ ShotsOf(play, 1)[1].timestamp = 1
  /\ play.holeData[1].shotCounts["Putts"]["Slightly Off"] = 1

\* ---------------------------------------------------------------------------
\* C38

\* the entry of a hole in the stored hole collection: <<>> when the collection
\* or the entry is absent
StoredEntry(s, h) ==
  IF GetItem(s, "holes") # <<>> /\ h \in DOMAIN GetItem(s, "holes")[1]
    THEN << GetItem(s, "holes")[1][h] >>
    ELSE <<>>

\* a save of the screen or of the pipeline writes the hole collection
SaveLands(k) == setItemSettles(k) \/ saveCurrentHoleSettles(k)

\* a save leaves the entries of the holes other than its own as they are
C38_OnlyOwnEntry ==
  [][\A k \in SaveIndices :
       SaveLands(k)
         => \A h \in 1..totalHoles \ {play.saves[k].currentHole} :
              StoredEntry(storage', h) = StoredEntry(storage, h)]_vars

\* once the pipeline has cleaned up and the screen has been left for the
\* scorecard, there is no hole collection
C38_NotRecreated ==
  tracker.navigation = "ScorecardScreen" => GetItem(storage, "holes") = <<>>

\* C38: a save of a hole changes only that hole's entry of the stored hole
\* collection, whatever saves of other holes it interleaves with, so that no
\* saved record is lost; and no save re-creates the hole collection after the
\* cleanup step has removed it.
C38_SavesDoNotInterfere == C38_OnlyOwnEntry /\ []C38_NotRecreated

\* ---------------------------------------------------------------------------
\* C40

\* C40: the current hole number is always within 1..totalHoles, whatever the
\* interleaving of handleNextHole, handlePreviousHole and completeHole.
C40_CurrentHoleInRange == play.currentHole \in 1..totalHoles

\* ---------------------------------------------------------------------------
\* C32

\* the call of the wrapped function has returned
CallReturned == boundary.at = "idle" /\ boundary.returned # "none"

\* C32: a call of a wrapped operation makes at most context.maxRetries + 1
\* attempts of the operation; it returns the operation's result only from a
\* successful attempt, with which it ends; and it returns null only once the
\* attempts are exhausted or the category of the error is not retryable.
C32_AttemptsBoundedByContext ==
  /\ boundary.calls <= boundary.context.maxRetries + 1
  /\ boundary.returned \in {"none", "result", "null"}
  /\ (CallReturned /\ boundary.returned = "result")
       => boundary.calls = boundary.attempt + 1
  /\ (CallReturned /\ boundary.returned = "null")
       => /\ boundary.calls = boundary.attempt
          /\ \/ boundary.attempt > boundary.context.maxRetries
             \/ RETRY_CONFIG(categorizeError(boundary.lastError)).maxRetries = 0

\* the same with the attempts counted against the maxRetries in effect,
\* context.maxRetries || 2
C32_AttemptsBoundedInEffect ==
  /\ boundary.calls <= boundary.maxRetries + 1
  /\ boundary.returned \in {"none", "result", "null"}
  /\ (CallReturned /\ boundary.returned = "result")
       => boundary.calls = boundary.attempt + 1
  /\ (CallReturned /\ boundary.returned = "null")
       => /\ boundary.calls = boundary.attempt
          /\ \/ boundary.attempt > boundary.maxRetries
             \/ RETRY_CONFIG(categorizeError(boundary.lastError)).maxRetries = 0

\* ---------------------------------------------------------------------------
\* C33

\* the attempt has failed and another one follows
Retries == AttemptFails /\ boundary'.at # "idle"

\* C33: the retries of a call never exceed the maxRetries that RETRY_CONFIG
\* gives for the category of the error retried, whatever context.maxRetries.
C33_RetriesBoundedByCategory ==
  [][Retries
       => boundary'.attempt
            <= RETRY_CONFIG(categorizeError(boundary'.lastError)).maxRetries]_vars

\* ---------------------------------------------------------------------------
\* C34

\* C34: an operation wrapped with context.maxRetries 0 is attempted at most
\* once; after its first failed attempt the call has returned null.
C34_ZeroMeansOneAttempt ==
  boundary.context.maxRetries = 0
    => /\ boundary.calls <= 1
       /\ boundary.attempt = 1 => (CallReturned /\ boundary.returned = "null")

\* ---------------------------------------------------------------------------
\* C35

\* the step in which the dialog is answered
Answered(shouldResume) ==
  tracker.alert = "ResumeRoundCompletion" /\ tracker'.shouldResume = << shouldResume >>

\* the step in which finishRound calls completeRoundSequential after the dialog
\* was answered
PipelineStarts(shouldResume) ==
  /\ tracker.finishRound = "call"
  /\ tracker'.finishRound = "running"
  /\ tracker.shouldResume = << shouldResume >>

PrefixThenOne(sp) ==
  /\ \A k \in 1..Len(sp) :
       /\ sp[k].step \in StepNames
       /\ sp[k].status \in {"completed", "pending", "failed"}
  /\ \A k \in 1..(Len(stepOrder) - 1) :
       StatusOf(sp, stepOrder[k]) # "completed"
         => StatusOf(sp, stepOrder[k + 1]) = "none"

\* at most one step is Failed
AtMostOneFailed(sp) == Cardinality(FailedSteps(sp)) <= 1

\* C36: in every stored checkpoint the step statuses form a prefix of Completed
\* steps in pipeline order, followed by at most one step that is Pending or
\* Failed, with no status for any later step; so at most one step is Failed
\* and no Completed step follows a step that is not Completed.
C36_CompletedPrefix ==
  [](StoredCheckpoint # <<>>
       => /\ PrefixThenOne(StoredCheckpoint[1].stepProgress)
          /\ AtMostOneFailed(StoredCheckpoint[1].stepProgress))

\* a run that resumed at markComplete, where the call before it had failed, has
\* completed that step and stored generateInsights as Pending
C36_Witness ==
  /\ previous = "markComplete"
  /\ resumeInfo.resumeFromStep = "markComplete"
  /\ StoredStatus("saveToDatabase") = "completed"
  /\ StoredStatus("markComplete") = "completed"
  /\ StoredStatus("generateInsights") = "pending"
  /\ StoredStatus("cleanup") = "none"

\* ---------------------------------------------------------------------------
\* C37

\* the run resumed from a checkpoint that keeps a failure
ResumedFromFailure == resumeInfo.preserveError # "null"

\* C37: in every stored checkpoint lastFailure is not null exactly when some
\* step is Failed, and then it names that step; and the checkpoint a resumed
\* run writes when it marks the failed step Pending carries lastFailure null.
C37_LastFailureNamesFailedStep ==
  /\ [](StoredCheckpoint # <<>>
          => /\ StoredCheckpoint[1].lastFailure # "null"
                  <=> FailedSteps(StoredCheckpoint[1].stepProgress) # {}
             /\ StoredCheckpoint[1].lastFailure # "null"
                  => FailedSteps(StoredCheckpoint[1].stepProgress)
                       = { StoredCheckpoint[1].lastFailure })
  /\ [][(/\ ResumedFromFailure
         /\ pc = "loop" /\ pc' = "savePending"
         /\ CurrentStep = resumeInfo.preserveError)
          => /\ Len(inflight') = Len(inflight) + 1
             /\ inflight'[Len(inflight')].lastFailure = "null"
             /\ StatusOf(inflight'[Len(inflight')].stepProgress, CurrentStep)
                  = "pending"
             /\ FailedSteps(inflight'[Len(inflight')].stepProgress) = {}]_vars

\* a run that resumed at markComplete, which had failed, has stored the
\* checkpoint that marks it Pending: no step is Failed and lastFailure is null
C37_Witness ==
  /\ ResumedFromFailure
  /\ resumeInfo.preserveError = "markComplete"
  /\ StoredCheckpoint # <<>>
  /\ StoredStatus("markComplete") = "pending"
  /\ StoredCheckpoint[1].lastFailure = "null"
  /\ pc = "savePending"
  /\ inflight = <<>>
====
